---------------------------- MODULE Spec2Model ----------------------------
(***************************************************************************)
(* A model of the MindScript compiler pipeline (robert-cronin/mindscript-go)*)
(*                                                                         *)
(*   Lexer            src/pkg/lexer/lexer.go                               *)
(*   SymbolTable      src/pkg/semantic/symbolTable.go                      *)
(*   Analyse          src/unnamed/part_001 (package semantic)              *)
(*   CodeGenerator    src/pkg/parser/ast.go (package codegen, l.220-445)   *)
(*   VM               src/pkg/vm/vm.go (l.17-392)                          *)
(*                                                                         *)
(* Nine specifications share the variables:                                *)
(*   Spec        the build pipeline on a program (AST): Analyse, then      *)
(*               GenerateBytecode, then VM.Run one step() at a time        *)
(*   SpecSymTab  a client of package semantic driving one SymbolTable      *)
(*   SpecLexer   repeated Lexer.NextToken on one input                     *)
(*   SpecParser  Parser.ParseProgram (src/pkg/parser/parser.go) on one     *)
(*               token stream, one iteration of its loop at a time         *)
(*   SpecVM      the pipeline on arithmetic programs, and one arithmetic   *)
(*               instruction of the VM on every pair of operands           *)
(*   SpecTwice   the build pipeline run twice on the same program          *)
(*   SpecBuild   runBuild (src/main.go) from the parse on                  *)
(*   SpecCode    VM.Run on every short instruction list and on the code    *)
(*               generated for every program                               *)
(*   SpecRepl    the REPL loop (src/unnamed/part_000) with its shared      *)
(*               SymbolTable                                               *)
(***************************************************************************)
EXTENDS Integers, Sequences, FiniteSets, TLC

VARIABLES
    \* ---- lexer.Lexer (lexer.go:92-98) and the token last returned
    input,          \* Lexer.input, a sequence of bytes (one-character strings)
    position,       \* Lexer.position (0-based byte offset)
    readPosition,   \* Lexer.readPosition
    ch,             \* Lexer.ch
    tok,            \* the Token returned by the latest NextToken call
    calls,          \* number of NextToken calls made so far
    \* ---- parser.Parser (parser.go:27-32) and the Program it builds
    tokens,         \* the tokens the parser's lexer returns before EOF, in order
    nread,          \* number of tokens the parser has taken from its lexer
    curToken,       \* Parser.curToken
    peekToken,      \* Parser.peekToken
    parsed,         \* program.Statements in ParseProgram
    pstage,         \* where ParseProgram is: "loop", "expression" or "returned"
    perrors,        \* what p.Errors() returns to runBuild
    \* ---- the pipeline driver (main.go runBuild)
    stage,          \* which stage of the pipeline has completed
    program,        \* parser.Program.Statements, the AST handed to Analyse
    \* ---- semantic.SymbolTable (symbolTable.go:37-41)
    scopes,         \* the chain currentScope -> parent -> ... ; the last element is currentScope
    semErr,         \* the error returned by the latest Analyse / Declare / Get call
    semLog,         \* history: what the analyser checked, in order
    lastOp,         \* the SymbolTable operation applied last, with its arguments and result
    \* ---- codegen.CodeGenerator output (ast.go:232-241)
    instructions,   \* the instruction list handed to the VM
    genStatus,      \* "ok", or "panic" when the generator called logger.Panic
    \* ---- vm.VM (vm.go:102-110)
    stack,          \* VM.stack
    locals,         \* VM.locals, the slots written so far (unwritten slots hold nil)
    pc,             \* VM.pc
    running,        \* VM.running
    callStack,      \* VM.callStack
    vmFault,        \* "none", or the message of the Go panic that ended the process
    logged,         \* the values handed to logger.Log.Info("Log message") by OpLog
    steps,          \* number of step() calls made so far
    \* ---- an earlier run of the pipeline on the same program
    firstRun,       \* what the first run of runBuild produced, NoRun before it ended
    \* ---- repl.Start (src/unnamed/part_000:33-77)
    replLines       \* number of lines the REPL has read from its scanner

lexVars == <<input, position, readPosition, ch, tok, calls>>
parVars == <<tokens, nread, curToken, peekToken, parsed, pstage, perrors>>
semVars == <<scopes, semErr, semLog, lastOp>>
genVars == <<instructions, genStatus>>
vmVars  == <<stack, locals, pc, running, callStack, vmFault, logged, steps>>
vars    == <<lexVars, parVars, stage, program, semVars, genVars, vmVars, firstRun, replLines>>

-----------------------------------------------------------------------------
(***************************************************************************)
(* Bounds of the model.                                                    *)
(***************************************************************************)
MaxLen   == 4      \* longest lexer input, in bytes
MaxCalls == 5      \* NextToken calls made on one lexer
MaxStmts == 2      \* most top-level statements in a program
MaxSteps == 24     \* step() calls made by one VM.Run
MaxDepth == 2      \* deepest scope chain a client of the symbol table builds
MaxCode  == 3      \* longest instruction list handed to vm.New directly

-----------------------------------------------------------------------------
(***************************************************************************)
(* LEXER  (src/pkg/lexer/lexer.go)                                         *)
(***************************************************************************)

\* The byte 0.  readChar stores it in ch at end of input (lexer.go:122), and
\* it is also what ch holds when the input itself contains a 0 byte.
NUL == "NUL"

\* The bytes the inputs are drawn from: letters, a digit, '.', '"', ';',
\* a space, a newline, a byte no rule recognises, and the 0 byte.
Alphabet == {"a", "o", "n", "1", ".", "\"", ";", " ", "\n", "#", NUL}

Letters    == {"a", "o", "n"}
Digits     == {"1"}
Whitespace == {" ", "\t", "\n", "\r"}

isLetter(c) == c \in Letters
isDigit(c)  == c \in Digits

\* var keywords (lexer.go:71-84); the literal is a sequence of bytes
keywords(lit) ==
    CASE lit = <<"a","g","e","n","t">> -> "AGENT"
      [] lit = <<"g","o","a","l">> -> "GOAL"
      [] lit = <<"c","a","p","a","b","i","l","i","t","i","e","s">> -> "CAPABILITIES"
      [] lit = <<"b","e","h","a","v","i","o","r">> -> "BEHAVIOR"
      [] lit = <<"f","u","n","c","t","i","o","n">> -> "FUNCTION"
      [] lit = <<"o","n">> -> "ON"
      [] lit = <<"v","a","r">> -> "VAR"
      [] lit = <<"i","n","t">> -> "INT"
      [] lit = <<"f","l","o","a","t">> -> "FLOAT"
      [] lit = <<"s","t","r","i","n","g">> -> "STRING"
      [] lit = <<"b","o","o","l">> -> "BOOL"
      [] lit = <<"r","e","t","u","r","n">> -> "RETURN"
      [] OTHER -> "IDENT"

\* the single-character tokens of the switch in NextToken (lexer.go:134-169)
punctuation(c) ==
    CASE c = "{" -> "LBRACE"   [] c = "}" -> "RBRACE"
      [] c = "(" -> "LPAREN"   [] c = ")" -> "RPAREN"
      [] c = "[" -> "LBRACKET" [] c = "]" -> "RBRACKET"
      [] c = ":" -> "COLON"    [] c = ";" -> "SEMICOLON"
      [] c = "," -> "COMMA"    [] c = "+" -> "PLUS"
      [] c = "-" -> "MINUS"    [] c = "*" -> "ASTERISK"
      [] c = "/" -> "SLASH"    [] c = "=" -> "ASSIGN"
      [] c = ">" -> "GT"       [] c = "<" -> "LT"
      [] c = "&" -> "AND"      [] c = "|" -> "OR"
      [] OTHER -> ""

\* A lexer value: the three cursor fields of Lexer over the input in.
Lx(p, rp, c) == [position |-> p, readPosition |-> rp, ch |-> c]

\* input[from:to] with Go's 0-based, end-exclusive bounds
slice(in, from, to) == SubSeq(in, from + 1, to)

\* func (l *Lexer) readChar()
readChar(in, l) ==
    Lx(l.readPosition, l.readPosition + 1,
       IF l.readPosition >= Len(in) THEN NUL ELSE in[l.readPosition + 1])

\* func (l *Lexer) peekChar(), through peekCharOffset(0)
peekChar(in, l) ==
    IF l.readPosition >= Len(in) THEN NUL ELSE in[l.readPosition + 1]

\* func (l *Lexer) skipWhitespace()
RECURSIVE skipWhitespace(_, _)
skipWhitespace(in, l) ==
    IF l.ch \in Whitespace THEN skipWhitespace(in, readChar(in, l)) ELSE l

\* the loop of readString: readChar until ch is '"' or 0
RECURSIVE readStringLoop(_, _)
readStringLoop(in, l) ==
    LET m == readChar(in, l)
    IN  IF m.ch = "\"" \/ m.ch = NUL THEN m ELSE readStringLoop(in, m)

\* the loop of readInt
RECURSIVE readIntLoop(_, _)
readIntLoop(in, l) ==
    IF isDigit(l.ch) THEN readIntLoop(in, readChar(in, l)) ELSE l

\* the loop of readFloat
RECURSIVE readFloatLoop(_, _)
readFloatLoop(in, l) ==
    IF isDigit(l.ch) \/ l.ch = "." THEN readFloatLoop(in, readChar(in, l)) ELSE l

\* the loop of readIdentifier
RECURSIVE readIdentifierLoop(_, _)
readIdentifierLoop(in, l) ==
    IF isLetter(l.ch) THEN readIdentifierLoop(in, readChar(in, l)) ELSE l

Token(t, lit, loc) == [Type |-> t, Literal |-> lit, Loc |-> loc]

\* the value of tok before the first call
NoToken == Token("NONE", <<>>, 0)

\* func (l *Lexer) NextToken() Token: the token returned and the lexer left behind
NextTokenOf(in, l0) ==
    LET l == skipWhitespace(in, l0)
    IN  CASE punctuation(l.ch) # "" ->
               [tok |-> Token(punctuation(l.ch), <<l.ch>>, l.position),
                lx  |-> readChar(in, l)]
          [] l.ch = "\"" ->
               LET m == readStringLoop(in, l)
               IN  [tok |-> Token("STRING", slice(in, l.position + 1, m.position), m.position),
                    lx  |-> readChar(in, m)]
          [] l.ch = NUL ->
               [tok |-> Token("EOF", <<"E","O","F">>, l.position),
                lx  |-> readChar(in, l)]
          [] isDigit(l.ch) ->
               IF peekChar(in, l) = "."
               THEN LET m == readFloatLoop(in, l)
                    IN  [tok |-> Token("FLOAT", slice(in, l.position, m.position), m.position),
                         lx  |-> m]
               ELSE LET m == readIntLoop(in, l)
                    IN  [tok |-> Token("INT", slice(in, l.position, m.position), m.position),
                         lx  |-> m]
          [] isLetter(l.ch) ->
               LET m   == readIdentifierLoop(in, l)
                   lit == slice(in, l.position, m.position)
               IN  [tok |-> Token(keywords(lit), lit, m.position),
                    lx  |-> m]
          [] OTHER ->
               [tok |-> Token("", <<>>, l.position),
                lx  |-> readChar(in, l)]

\* func New(input string) *Lexer: the zero Lexer after one readChar
NewLexer(in) == readChar(in, Lx(0, 0, NUL))

\* every byte string of at most MaxLen bytes over the alphabet
Inputs == UNION {[1..n -> Alphabet] : n \in 0..MaxLen}

\* the token the lexer returns at the end of its input
EOFToken == Token("EOF", "EOF", 0)

\* values of the variables a specification does not use
IdleParser ==
    /\ tokens = <<>> /\ nread = 0 /\ curToken = EOFToken /\ peekToken = EOFToken
    /\ parsed = <<>> /\ pstage = "idle" /\ perrors = <<>>

IdleLexer ==
    /\ input = <<>> /\ position = 0 /\ readPosition = 0 /\ ch = NUL
    /\ tok = NoToken /\ calls = 0

InitLexer ==
    /\ input \in Inputs
    /\ LET l == NewLexer(input)
       IN  position = l.position /\ readPosition = l.readPosition /\ ch = l.ch
    /\ tok = NoToken
    /\ calls = 0

\* one call of Lexer.NextToken by the parser
NextToken ==
    /\ calls < MaxCalls
    /\ LET r == NextTokenOf(input, Lx(position, readPosition, ch))
       IN  /\ tok' = r.tok
           /\ position' = r.lx.position
           /\ readPosition' = r.lx.readPosition
           /\ ch' = r.lx.ch
    /\ calls' = calls + 1
    /\ UNCHANGED input

-----------------------------------------------------------------------------
(***************************************************************************)
(* AST  (the node types used by part_001 and by the code generator)        *)
(*                                                                         *)
(* Every statement carries the 1-based source line of its tokens, the      *)
(* value Lexer.Line returns for them; a statement sits on one line.        *)
(***************************************************************************)
IntLit(i)        == [kind |-> "int", ival |-> i]
FloatLit(i, f)   == [kind |-> "float", ipart |-> i, fpart |-> f]
StrLit(s)        == [kind |-> "string", sval |-> s]
BoolLit(b)       == [kind |-> "bool", bval |-> b]
Ident(n)         == [kind |-> "ident", name |-> n]
Infix(o, l, r)   == [kind |-> "infix", op |-> o, left |-> l, right |-> r]
Call(f, as)      == [kind |-> "call", fn |-> f, args |-> as]

VarStmt(n, t, e, ln)  == [kind |-> "var", name |-> n, type |-> t, value |-> e, line |-> ln]
ExprStmt(e, ln)       == [kind |-> "expr", expr |-> e, line |-> ln]
ReturnStmt(e, ln)     == [kind |-> "return", value |-> e, line |-> ln]
Arg(n, t)             == [name |-> n, type |-> t]
Function(n, as, rt, b, ln) ==
    [kind |-> "function", name |-> n, args |-> as, rtype |-> rt, body |-> b, line |-> ln]
EventHandler(ev, b)   == [event |-> ev, body |-> b]
\* goal is a sequence of zero or one string (Agent.Goal may be nil);
\* behaviors is a sequence of behaviors, each a sequence of event handlers
AgentStmt(n, g, caps, bs, fs, ln) ==
    [kind |-> "agent", name |-> n, goal |-> g, caps |-> caps,
     behaviors |-> bs, functions |-> fs, line |-> ln]

-----------------------------------------------------------------------------
(***************************************************************************)
(* SYMBOL TABLE  (src/pkg/semantic/symbolTable.go)                         *)
(*                                                                         *)
(* The chain of Scope values reachable from currentScope through parent is *)
(* a sequence: scopes[1] is the global scope, scopes[Len(scopes)] is       *)
(* currentScope, and scopes[i].parent is scopes[i-1].                      *)
(***************************************************************************)

\* Go errors.  msg is the format string's fixed text, names the identifiers
\* the message quotes, lines the "line N: " prefixes in front of it.
Error(m, ns) == [msg |-> m, names |-> ns, lines |-> <<>>]
Nil          == Error("nil", {})

ErrVariableDeclared == Error("variable already declared in this scope", {})
ErrFunctionDeclared == Error("function already declared in this scope", {})
ErrVariableNotDeclared == Error("variable not declared", {})
ErrFunctionNotDeclared(n) == Error("function %s not declared", {n})
ErrArgumentCount == Error("expected %d arguments but got %d", {})
ErrArgumentType  == Error("type mismatch for argument %d: expected %s but got %s", {})
ErrInfixType     == Error("type mismatch in infix expression", {})
ErrUnknownExpression == Error("unknown expression type", {})

\* fmt.Errorf("line %d: %s", st.l.Line(e.Token), err)
WithLine(ln, e) == [e EXCEPT !.lines = <<ln>> \o @]

EmptyMap == [x \in {} |-> ""]
MapPut(m, k, v) == [x \in DOMAIN m \cup {k} |-> IF x = k THEN v ELSE m[x]]

FunctionSignature(as, rt) == [Arguments |-> as, ReturnType |-> rt]
NewScope == [variables |-> EmptyMap, functions |-> EmptyMap]

\* func NewSymbolTable(l *lexer.Lexer) *SymbolTable
NewSymbolTable == <<NewScope>>

\* func (st *SymbolTable) pushScope()
pushScope(sc) == Append(sc, NewScope)

\* func (st *SymbolTable) popScope(); the caller checks Len(sc) > 1, the
\* code panics with "cannot pop the global scope" otherwise
popScope(sc) == SubSeq(sc, 1, Len(sc) - 1)

currentScope(sc) == sc[Len(sc)]

\* DeclareVariable refusing a name bound in any scope of the chain
DeclareVariable_AnyScope(sc, name, varType) ==
    IF \E i \in 1..Len(sc) : name \in DOMAIN sc[i].variables
    THEN [scopes |-> sc, err |-> ErrVariableDeclared]
    ELSE [scopes |-> [sc EXCEPT ![Len(sc)].variables = MapPut(@, name, varType)],
          err |-> Nil]

\* func (st *SymbolTable) DeclareVariable(name string, varType string) error
DeclareVariable(sc, name, varType) ==
    IF name \in DOMAIN currentScope(sc).variables
    THEN [scopes |-> sc, err |-> ErrVariableDeclared]
    ELSE [scopes |-> [sc EXCEPT ![Len(sc)].variables = MapPut(@, name, varType)],
          err |-> Nil]

\* func (st *SymbolTable) DeclareFunction(name string, signature FunctionSignature) error
DeclareFunction(sc, name, signature) ==
    IF name \in DOMAIN currentScope(sc).functions
    THEN [scopes |-> sc, err |-> ErrFunctionDeclared]
    ELSE [scopes |-> [sc EXCEPT ![Len(sc)].functions = MapPut(@, name, signature)],
          err |-> Nil]

\* the loop of GetVariableType: scope i, then its parent, until nil
RECURSIVE lookupVariable(_, _, _)
lookupVariable(sc, i, name) ==
    IF i = 0 THEN [type |-> "", err |-> ErrVariableNotDeclared]
    ELSE IF name \in DOMAIN sc[i].variables
         THEN [type |-> sc[i].variables[name], err |-> Nil]
         ELSE lookupVariable(sc, i - 1, name)

\* GetVariableType looking the name up from the global scope inwards
GetVariableType_OutermostFirst(sc, name) ==
    LET rev == [i \in 1..Len(sc) |-> sc[Len(sc) + 1 - i]]
    IN  lookupVariable(rev, Len(rev), name)

\* func (st *SymbolTable) GetVariableType(name string) (string, error)
GetVariableType(sc, name) == lookupVariable(sc, Len(sc), name)

\* the loop of GetFunctionSignature
RECURSIVE lookupFunction(_, _, _)
lookupFunction(sc, i, name) ==
    IF i = 0 THEN [sig |-> FunctionSignature(<<>>, ""), err |-> ErrFunctionNotDeclared(name)]
    ELSE IF name \in DOMAIN sc[i].functions
         THEN [sig |-> sc[i].functions[name], err |-> Nil]
         ELSE lookupFunction(sc, i - 1, name)

\* func (st *SymbolTable) GetFunctionSignature(name string) (FunctionSignature, error)
GetFunctionSignature(sc, name) == lookupFunction(sc, Len(sc), name)

-----------------------------------------------------------------------------
(***************************************************************************)
(* SEMANTIC ANALYSIS  (src/unnamed/part_001)                               *)
(*                                                                         *)
(* The analyser's functions take and return a record                       *)
(*   [scopes, err, log]                                                    *)
(* scopes is the symbol table, err the error being returned (Nil while     *)
(* the traversal goes on) and log a history of the Infix and Call nodes    *)
(* whose case in analyseExpression ran to its end, each with the table it  *)
(* was analysed against.  The log records; nothing reads it.               *)
(***************************************************************************)
Fail(a, e)   == [a EXCEPT !.err = e]
Logged(a, x) == [a EXCEPT !.log = Append(@, x)]

\* func (st *SymbolTable) initSystemFunctions(); the errors of the two
\* DeclareFunction calls are dropped
initSystemFunctions(sc) ==
    LET a == DeclareFunction(sc, "log", FunctionSignature(<<"string">>, "void")).scopes
    IN  DeclareFunction(a, "syscall", FunctionSignature(<<"string", "string">>, "void")).scopes

\* func (st *SymbolTable) getExpressionType(expr parser.Expression) (string, error)
RECURSIVE getExpressionType(_, _)
getExpressionType(sc, e) ==
    CASE e.kind = "ident"  -> GetVariableType(sc, e.name)
      [] e.kind = "int"    -> [type |-> "int", err |-> Nil]
      [] e.kind = "float"  -> [type |-> "float", err |-> Nil]
      [] e.kind = "string" -> [type |-> "string", err |-> Nil]
      [] e.kind = "bool"   -> [type |-> "bool", err |-> Nil]
      [] e.kind = "infix"  ->
            LET l == getExpressionType(sc, e.left)
            IN  IF l.err # Nil THEN [type |-> "", err |-> l.err]
                ELSE LET r == getExpressionType(sc, e.right)
                     IN  IF r.err # Nil THEN [type |-> "", err |-> r.err]
                         ELSE IF l.type # r.type THEN [type |-> "", err |-> ErrInfixType]
                         ELSE [type |-> l.type, err |-> Nil]
      [] e.kind = "call"   ->
            LET f == GetFunctionSignature(sc, e.fn)
            IN  IF f.err # Nil THEN [type |-> "", err |-> f.err]
                ELSE [type |-> f.sig.ReturnType, err |-> Nil]
      [] OTHER -> [type |-> "", err |-> ErrUnknownExpression]

\* func (st *SymbolTable) getArgumentsTypes(args []*parser.FunctionArgument) []string
getArgumentsTypes(as) == [i \in 1..Len(as) |-> as[i].type]

RECURSIVE analyseExpression(_, _, _)
RECURSIVE analyseArguments(_, _, _, _, _)
RECURSIVE analyseArguments_NoTypeCheck(_, _, _, _, _)

\* the loop over e.Arguments without the comparison of funcSig.Arguments[i]
\* with the argument's type
analyseArguments_NoTypeCheck(a, e, funcSig, i, ln) ==
    IF i > Len(e.args) THEN a
    ELSE LET r == analyseExpression(a, e.args[i], ln)
         IN  IF r.err # Nil THEN Fail(r, WithLine(ln, r.err))
             ELSE LET t == getExpressionType(r.scopes, e.args[i])
                  IN  IF t.err # Nil THEN Fail(r, WithLine(ln, t.err))
                      ELSE analyseArguments_NoTypeCheck(r, e, funcSig, i + 1, ln)

\* analyseExpression, case *parser.CallExpression: the loop over e.Arguments
\* from argument i on
analyseArguments(a, e, funcSig, i, ln) ==
    IF i > Len(e.args) THEN a
    ELSE LET r == analyseExpression(a, e.args[i], ln)
         IN  IF r.err # Nil THEN Fail(r, WithLine(ln, r.err))
             ELSE LET t == getExpressionType(r.scopes, e.args[i])
                  IN  IF t.err # Nil THEN Fail(r, WithLine(ln, t.err))
                      ELSE IF funcSig.Arguments[i] # t.type
                           THEN Fail(r, WithLine(ln, ErrArgumentType))
                           ELSE analyseArguments(r, e, funcSig, i + 1, ln)

\* func (st *SymbolTable) analyseExpression(expr parser.Expression) error
analyseExpression(a, e, ln) ==
    CASE e.kind = "ident" ->
            LET r == GetVariableType(a.scopes, e.name)
            IN  IF r.err # Nil THEN Fail(a, r.err) ELSE a
      [] e.kind = "infix" ->
            LET l == analyseExpression(a, e.left, ln)
            IN  IF l.err # Nil THEN l
                ELSE LET r == analyseExpression(l, e.right, ln)
                     IN  IF r.err # Nil THEN r
                         ELSE Logged(r, [node |-> e, scopes |-> r.scopes])
      [] e.kind = "call" ->
            LET f == GetFunctionSignature(a.scopes, e.fn)
            IN  IF f.err # Nil THEN Fail(a, WithLine(ln, f.err))
                ELSE IF Len(f.sig.Arguments) # Len(e.args)
                     THEN Fail(a, WithLine(ln, ErrArgumentCount))
                     ELSE LET r == analyseArguments(a, e, f.sig, 1, ln)
                          IN  IF r.err # Nil THEN r
                              ELSE Logged(r, [node |-> e, scopes |-> r.scopes])
      [] OTHER -> a

RECURSIVE analyseStatement(_, _)
RECURSIVE analyseStatements(_, _, _)
RECURSIVE declareArguments(_, _, _)
RECURSIVE analyseEventHandlers(_, _, _)
RECURSIVE analyseBehaviors(_, _, _)

\* a loop "for _, stmt := range ...; if err := st.analyseStatement(stmt);
\* err != nil { return err }" from statement i on
analyseStatements(a, stmts, i) ==
    IF i > Len(stmts) THEN a
    ELSE LET r == analyseStatement(a, stmts[i])
         IN  IF r.err # Nil THEN r ELSE analyseStatements(r, stmts, i + 1)

\* analyseStatement, case *parser.Function: the loop declaring s.Arguments
declareArguments(a, as, i) ==
    IF i > Len(as) THEN a
    ELSE LET d == DeclareVariable(a.scopes, as[i].name, as[i].type)
         IN  IF d.err # Nil THEN Fail(a, d.err)
             ELSE declareArguments([a EXCEPT !.scopes = d.scopes], as, i + 1)

\* func (st *SymbolTable) analyseBlockStatement(block *parser.BlockStatement) error
analyseBlockStatement(a, block) == analyseStatements(a, block, 1)

\* analyseAgentStatement: the loop over behavior.EventHandlers
analyseEventHandlers(a, hs, i) ==
    IF i > Len(hs) THEN a
    ELSE LET p == [a EXCEPT !.scopes = pushScope(@)]
             r == analyseBlockStatement(p, hs[i].body)
         IN  IF r.err # Nil THEN r
             ELSE analyseEventHandlers([r EXCEPT !.scopes = popScope(@)], hs, i + 1)

\* analyseAgentStatement: the loop over agent.Behaviors
analyseBehaviors(a, bs, i) ==
    IF i > Len(bs) THEN a
    ELSE LET r == analyseEventHandlers(a, bs[i], 1)
         IN  IF r.err # Nil THEN r ELSE analyseBehaviors(r, bs, i + 1)

\* func (st *SymbolTable) analyseAgentStatement(agent *parser.AgentStatement) error
analyseAgentStatement(a, agent) ==
    LET r == analyseBehaviors(a, agent.behaviors, 1)
    IN  IF r.err # Nil THEN r ELSE analyseStatements(r, agent.functions, 1)

\* func (st *SymbolTable) analyseStatement(stmt parser.Statement) error
analyseStatement(a, s) ==
    CASE s.kind = "agent" ->
            LET d == DeclareVariable(a.scopes, s.name, "agent")
            IN  IF d.err # Nil THEN Fail(a, d.err)
                ELSE analyseAgentStatement([a EXCEPT !.scopes = d.scopes], s)
      [] s.kind = "var" ->
            LET d == DeclareVariable(a.scopes, s.name, s.type)
            IN  IF d.err # Nil THEN Fail(a, d.err)
                ELSE analyseExpression([a EXCEPT !.scopes = d.scopes], s.value, s.line)
      [] s.kind = "function" ->
            LET d == DeclareFunction(a.scopes, s.name,
                         FunctionSignature(getArgumentsTypes(s.args), s.rtype))
            IN  IF d.err # Nil THEN Fail(a, d.err)
                ELSE LET p == declareArguments([a EXCEPT !.scopes = pushScope(d.scopes)],
                                               s.args, 1)
                     IN  IF p.err # Nil THEN p
                         ELSE LET b == analyseStatements(p, s.body, 1)
                              IN  IF b.err # Nil THEN b
                                  ELSE [b EXCEPT !.scopes = popScope(@)]
      [] s.kind = "expr"   -> analyseExpression(a, s.expr, s.line)
      [] s.kind = "return" -> analyseExpression(a, s.value, s.line)
      [] OTHER -> a

\* func (st *SymbolTable) Analyse(program *parser.Program) error
Analyse(sc, prog) ==
    analyseStatements([scopes |-> initSystemFunctions(sc), err |-> Nil, log |-> <<>>],
                      prog, 1)

-----------------------------------------------------------------------------
(***************************************************************************)
(* CODE GENERATOR  (package codegen, src/pkg/parser/ast.go:220-445)        *)
(*                                                                         *)
(* A generator value is the record of CodeGenerator's fields; panic is     *)
(* "" until a logger.Panic call, after which nothing more is emitted.      *)
(***************************************************************************)
Instruction(o, n) == [Opcode |-> o, Operand |-> n]

\* a generator whose symbol counter is not reset between two runs
NewCodeGenerator_KeptBetweenRuns ==
    [instructions |-> <<>>, functions |-> EmptyMap, symbols |-> EmptyMap,
     nextFuncIndex |-> 0,
     nextSymbolIndex |-> IF firstRun.stage = "none" THEN 0 ELSE 1,
     panic |-> ""]

\* func NewCodeGenerator(symbolTable *semantic.SymbolTable) *CodeGenerator
NewCodeGenerator ==
    [instructions |-> <<>>, functions |-> EmptyMap, symbols |-> EmptyMap,
     nextFuncIndex |-> 0, nextSymbolIndex |-> 0, panic |-> ""]

\* CodeGenerator.builtinFunctions
builtinFunctions == [log |-> "LOG", syscall |-> "SYSCALL", exec |-> "EXEC"]

\* func (cg *CodeGenerator) emit(opcode vm.Opcode, operand int)
emit(cg, opcode, operand) ==
    [cg EXCEPT !.instructions = Append(@, Instruction(opcode, operand))]

Panic(cg, msg) == [cg EXCEPT !.panic = msg]

\* func (cg *CodeGenerator) declareSymbol(name string) int: the generator left
\* behind; the index returned is symbols[name] in it
declareSymbol(cg, name) ==
    IF name \in DOMAIN cg.symbols THEN cg
    ELSE [cg EXCEPT !.symbols = MapPut(@, name, cg.nextSymbolIndex),
                    !.nextSymbolIndex = @ + 1]

\* func (cg *CodeGenerator) declareFunction(name string) int
declareFunction(cg, name) ==
    IF name \in DOMAIN cg.functions THEN cg
    ELSE [cg EXCEPT !.functions = MapPut(@, name, cg.nextFuncIndex),
                    !.nextFuncIndex = @ + 1]

\* func (cg *CodeGenerator) generateStringLiteral(value string)
generateStringLiteral(cg, value) ==
    LET d == declareSymbol(cg, value)
    IN  emit(d, "PUSH_STRING", d.symbols[value])

\* the operator switch of generateExpression, case *parser.InfixExpression
operatorOpcode(op) ==
    CASE op = "+" -> "ADD" [] op = "-" -> "SUB"
      [] op = "*" -> "MUL" [] op = "/" -> "DIV"
      [] OTHER -> ""

RECURSIVE generateExpression(_, _)
RECURSIVE generateArguments(_, _, _)

\* generateExpression, case *parser.CallExpression: the loop over e.Arguments
generateArguments(cg, as, i) ==
    IF i > Len(as) \/ cg.panic # "" THEN cg
    ELSE generateArguments(generateExpression(cg, as[i]), as, i + 1)

\* func (cg *CodeGenerator) generateExpression(expr parser.Expression)
generateExpression(cg, e) ==
    IF cg.panic # "" THEN cg
    ELSE CASE e.kind = "int"    -> emit(cg, "PUSH", e.ival)
           [] e.kind = "float"  -> emit(cg, "PUSH", e.ipart)
           [] e.kind = "string" -> generateStringLiteral(cg, e.sval)
           [] e.kind = "bool"   -> emit(cg, "PUSH", IF e.bval THEN 1 ELSE 0)
           [] e.kind = "ident"  ->
                IF e.name \notin DOMAIN cg.symbols THEN Panic(cg, "Undefined variable")
                ELSE emit(cg, "GET_LOCAL", cg.symbols[e.name])
           [] e.kind = "infix"  ->
                LET r == generateExpression(generateExpression(cg, e.left), e.right)
                IN  IF r.panic # "" THEN r
                    ELSE IF operatorOpcode(e.op) = "" THEN Panic(r, "Unknown operator")
                    ELSE emit(r, operatorOpcode(e.op), 0)
           [] e.kind = "call"   ->
                LET r == generateArguments(cg, e.args, 1)
                IN  IF r.panic # "" THEN r
                    ELSE IF e.fn \in DOMAIN builtinFunctions
                         THEN emit(r, builtinFunctions[e.fn], Len(e.args))
                    ELSE IF e.fn \notin DOMAIN r.functions
                         THEN Panic(r, "Undefined function")
                    ELSE emit(r, "CALL", r.functions[e.fn])
           [] OTHER -> Panic(cg, "Unsupported expression type")

\* func (cg *CodeGenerator) generateVarStatement(stmt *parser.VarStatement)
generateVarStatement(cg, s) ==
    LET v == generateExpression(cg, s.value)
    IN  IF v.panic # "" THEN v
        ELSE LET d == declareSymbol(v, s.name)
             IN  emit(d, "SET_LOCAL", d.symbols[s.name])

RECURSIVE generateStatement(_, _)
RECURSIVE generateStatements(_, _, _)
RECURSIVE generateEventHandlers(_, _, _, _)
RECURSIVE generateBehaviors(_, _, _, _)
RECURSIVE generateFunctions(_, _, _, _)
RECURSIVE generateCapabilities(_, _, _, _)
RECURSIVE generateFunctionArguments(_, _, _, _)

\* a loop "for _, stmt := range ... { cg.generateStatement(stmt) }"
generateStatements(cg, stmts, i) ==
    IF i > Len(stmts) \/ cg.panic # "" THEN cg
    ELSE generateStatements(generateStatement(cg, stmts[i]), stmts, i + 1)

\* func (cg *CodeGenerator) generateBlockStatement(block *parser.BlockStatement)
generateBlockStatement(cg, block) == generateStatements(cg, block, 1)

\* func (cg *CodeGenerator) generateBehavior(behavior *parser.Behavior, agentIndex int):
\* the loop over behavior.EventHandlers from handler i on
generateEventHandlers(cg, hs, agentIndex, i) ==
    IF i > Len(hs) \/ cg.panic # "" THEN cg
    ELSE LET eventHandlerIndex == cg.nextSymbolIndex
             c1 == emit([cg EXCEPT !.nextSymbolIndex = @ + 1],
                        "CREATE_EVENT_HANDLER", eventHandlerIndex)
             c2 == emit(generateStringLiteral(c1, hs[i].event),
                        "SET_EVENT_HANDLER_EVENT", eventHandlerIndex)
             c3 == generateBlockStatement(c2, hs[i].body)
         IN  IF c3.panic # "" THEN c3
             ELSE generateEventHandlers(
                      emit(emit(c3, "ADD_AGENT_EVENT_HANDLER", agentIndex),
                           "PUSH", eventHandlerIndex),
                      hs, agentIndex, i + 1)

generateBehavior(cg, behavior, agentIndex) ==
    generateEventHandlers(cg, behavior, agentIndex, 1)

\* generateAgentStatement: the loop over agent.Behaviors
generateBehaviors(cg, bs, agentIndex, i) ==
    IF i > Len(bs) \/ cg.panic # "" THEN cg
    ELSE generateBehaviors(generateBehavior(cg, bs[i], agentIndex), bs, agentIndex, i + 1)

\* generateFunction: the loop over function.Arguments
generateFunctionArguments(cg, as, functionIndex, i) ==
    IF i > Len(as) THEN cg
    ELSE generateFunctionArguments(
             emit(generateStringLiteral(cg, as[i].name),
                  "ADD_FUNCTION_ARGUMENT", functionIndex),
             as, functionIndex, i + 1)

\* func (cg *CodeGenerator) generateFunction(function *parser.Function, agentIndex int)
generateFunction(cg, f, agentIndex) ==
    LET d  == declareFunction(cg, f.name)
        functionIndex == d.functions[f.name]
        c1 == emit(d, "CREATE_FUNCTION", functionIndex)
        c2 == generateFunctionArguments(c1, f.args, functionIndex, 1)
        c3 == generateBlockStatement(c2, f.body)
    IN  IF c3.panic # "" THEN c3
        ELSE emit(emit(c3, "ADD_AGENT_FUNCTION", agentIndex), "PUSH", functionIndex)

\* generateAgentStatement: the loop over agent.Functions
generateFunctions(cg, fs, agentIndex, i) ==
    IF i > Len(fs) \/ cg.panic # "" THEN cg
    ELSE generateFunctions(generateFunction(cg, fs[i], agentIndex), fs, agentIndex, i + 1)

\* generateAgentStatement: the loop over agent.Capabilities.Values
generateCapabilities(cg, caps, agentIndex, i) ==
    IF i > Len(caps) THEN cg
    ELSE generateCapabilities(
             emit(generateStringLiteral(cg, caps[i]), "ADD_AGENT_CAPABILITY", agentIndex),
             caps, agentIndex, i + 1)

\* generateAgentStatement with the goal emitted after the capabilities
generateAgentStatement_GoalLast(cg, agent) ==
    LET d  == declareSymbol(cg, agent.name)
        agentIndex == d.symbols[agent.name]
        c1 == emit(d, "CREATE_AGENT", agentIndex)
        c2 == generateCapabilities(c1, agent.caps, agentIndex, 1)
        c3 == IF Len(agent.goal) = 0 THEN c2
              ELSE emit(generateStringLiteral(c2, agent.goal[1]),
                        "SET_AGENT_GOAL", agentIndex)
        c4 == generateBehaviors(c3, agent.behaviors, agentIndex, 1)
    IN  generateFunctions(c4, agent.functions, agentIndex, 1)

\* func (cg *CodeGenerator) generateAgentStatement(agent *parser.AgentStatement)
generateAgentStatement(cg, agent) ==
    LET d  == declareSymbol(cg, agent.name)
        agentIndex == d.symbols[agent.name]
        c1 == emit(d, "CREATE_AGENT", agentIndex)
        c2 == IF Len(agent.goal) = 0 THEN c1
              ELSE emit(generateStringLiteral(c1, agent.goal[1]),
                        "SET_AGENT_GOAL", agentIndex)
        c3 == generateCapabilities(c2, agent.caps, agentIndex, 1)
        c4 == generateBehaviors(c3, agent.behaviors, agentIndex, 1)
    IN  generateFunctions(c4, agent.functions, agentIndex, 1)

\* func (cg *CodeGenerator) generateStatement(stmt parser.Statement)
generateStatement(cg, s) ==
    IF cg.panic # "" THEN cg
    ELSE CASE s.kind = "agent"  -> generateAgentStatement(cg, s)
           [] s.kind = "expr"   -> generateExpression(cg, s.expr)
           [] s.kind = "var"    -> generateVarStatement(cg, s)
           [] s.kind = "return" ->
                LET r == generateExpression(cg, s.value)
                IN  IF r.panic # "" THEN r ELSE emit(r, "RETURN", 0)
           [] OTHER -> Panic(cg, "Unsupported statement type")

\* GenerateBytecode without its final emit
GenerateBytecode_NoHalt(prog) == generateStatements(NewCodeGenerator, prog, 1)

\* func GenerateBytecode(program *parser.Program, symbolTable *semantic.SymbolTable)
\*     []vm.Instruction
GenerateBytecode(prog) ==
    LET cg == generateStatements(NewCodeGenerator, prog, 1)
    IN  IF cg.panic # "" THEN cg ELSE emit(cg, "HALT", 0)

-----------------------------------------------------------------------------
(***************************************************************************)
(* VIRTUAL MACHINE  (src/pkg/vm/vm.go:17-392)                              *)
(*                                                                         *)
(* A machine value is the record of VM's fields, with fault the message of *)
(* the Go panic that ended the process ("none" while it lives) and logged  *)
(* the messages OpLog has written.                                         *)
(***************************************************************************)

\* the dynamic values an interface{} on the stack holds
IntV(n) == [t |-> "int", i |-> n, s |-> ""]
StrV(x) == [t |-> "string", i |-> 0, s |-> x]
NilV    == [t |-> "nil", i |-> 0, s |-> ""]

\* make([]interface{}, 256) in New
LocalsSize == 256

\* func New(instructions []Instruction) *VM
NewVM ==
    [stack |-> <<>>, locals |-> [x \in {} |-> NilV], pc |-> 0, running |-> TRUE,
     callStack |-> <<>>, fault |-> "none", logged |-> <<>>]

\* func (vm *VM) getStringConstant(index int) string
getStringConstant(index) == "String constant " \o ToString(index)

\* func (vm *VM) popStack() interface{}: the machine left behind and the value returned
popStack(m) ==
    IF Len(m.stack) = 0
    THEN [m |-> [m EXCEPT !.running = FALSE], value |-> NilV]
    ELSE [m |-> [m EXCEPT !.stack = SubSeq(@, 1, Len(@) - 1)],
          value |-> m.stack[Len(m.stack)]]

push(m, v) == [m EXCEPT !.stack = Append(@, v)]

\* Go's integer division, which truncates toward zero
GoQuotient(x, y) ==
    LET ax == IF x < 0 THEN -x ELSE x
        ay == IF y < 0 THEN -y ELSE y
        q  == ax \div ay
    IN  IF (x < 0) # (y < 0) THEN -q ELSE q

\* a float64 on the stack, as the fraction n/d in lowest terms with d > 0
RECURSIVE GCD(_, _)
GCD(a, b) == IF b = 0 THEN a ELSE GCD(b, a % b)

Abs(x) == IF x < 0 THEN -x ELSE x

FloatV(n, d) ==
    LET g  == GCD(Abs(n), Abs(d))
        sg == IF d < 0 THEN -1 ELSE 1
    IN  [t |-> "float", i |-> 0, s |-> "", n |-> sg * (n \div g), d |-> sg * (d \div g)]

\* float64(x) for an int x; a float64 as it is
widen(v) == IF v.t = "int" THEN FloatV(v.i, 1) ELSE v

Ok(v) == [value |-> v, panic |-> "none"]

\* div without its tests for a zero divisor
arith_NoZeroTest(opcode, a, b) ==
    IF opcode = "DIV" /\ a.t \in {"int", "float"} /\ b.t \in {"int", "float"}
       /\ widen(b).n = 0
    THEN IF a.t = "int" /\ b.t = "int" THEN Ok(IntV(0)) ELSE Ok(FloatV(0, 1))
    ELSE IF a.t = "int" /\ b.t = "int"
    THEN CASE opcode = "ADD" -> Ok(IntV(a.i + b.i))
           [] opcode = "SUB" -> Ok(IntV(a.i - b.i))
           [] opcode = "MUL" -> Ok(IntV(a.i * b.i))
           [] opcode = "DIV" -> Ok(IntV(GoQuotient(a.i, b.i)))
    ELSE IF a.t \in {"int", "float"} /\ b.t \in {"int", "float"}
    THEN LET x == widen(a)
             y == widen(b)
         IN  CASE opcode = "ADD" -> Ok(FloatV(x.n * y.d + y.n * x.d, x.d * y.d))
               [] opcode = "SUB" -> Ok(FloatV(x.n * y.d - y.n * x.d, x.d * y.d))
               [] opcode = "MUL" -> Ok(FloatV(x.n * y.n, x.d * y.d))
               [] opcode = "DIV" -> Ok(FloatV(x.n * y.d, x.d * y.n))
    ELSE [value |-> NilV, panic |-> "Unsupported types"]

\* func (vm *VM) add / sub / mul / div: [value, panic].  The type switches
\* fall through to the panic at the end of each function for every operand
\* that is neither int nor float64.
arith(opcode, a, b) ==
    IF a.t = "int" /\ b.t = "int"
    THEN CASE opcode = "ADD" -> Ok(IntV(a.i + b.i))
           [] opcode = "SUB" -> Ok(IntV(a.i - b.i))
           [] opcode = "MUL" -> Ok(IntV(a.i * b.i))
           [] opcode = "DIV" ->
                IF b.i = 0 THEN [value |-> NilV, panic |-> "Division by zero"]
                ELSE Ok(IntV(GoQuotient(a.i, b.i)))
    ELSE IF a.t \in {"int", "float"} /\ b.t \in {"int", "float"}
    THEN LET x == widen(a)
             y == widen(b)
         IN  CASE opcode = "ADD" -> Ok(FloatV(x.n * y.d + y.n * x.d, x.d * y.d))
               [] opcode = "SUB" -> Ok(FloatV(x.n * y.d - y.n * x.d, x.d * y.d))
               [] opcode = "MUL" -> Ok(FloatV(x.n * y.n, x.d * y.d))
               [] opcode = "DIV" ->
                    IF y.n = 0 THEN [value |-> NilV, panic |-> "Division by zero"]
                    ELSE Ok(FloatV(x.n * y.d, x.d * y.n))
    ELSE [value |-> NilV, panic |-> "Unsupported types"]

\* executeBinaryOp taking the top of the stack for the left operand
executeBinaryOp_LeftOnTop(m, opcode) ==
    LET l == popStack(m)
        r == popStack(l.m)
        x == arith(opcode, l.value, r.value)
    IN  IF x.panic # "none" THEN [r.m EXCEPT !.fault = x.panic]
        ELSE push(r.m, x.value)

\* func (vm *VM) executeBinaryOp(opcode Opcode)
executeBinaryOp(m, opcode) ==
    LET r == popStack(m)
        l == popStack(r.m)
        x == arith(opcode, l.value, r.value)
    IN  IF x.panic # "none" THEN [l.m EXCEPT !.fault = x.panic]
        ELSE push(l.m, x.value)

\* OpSyscall and OpExec up to exec.Command: command := vm.popStack().(string);
\* args := vm.popStack().(string).  A failed type assertion panics.
popCommand(m) ==
    LET c == popStack(m)
    IN  IF c.value.t # "string"
        THEN [m |-> [c.m EXCEPT !.fault = "interface conversion"],
              command |-> "", args |-> ""]
        ELSE LET a == popStack(c.m)
             IN  IF a.value.t # "string"
                 THEN [m |-> [a.m EXCEPT !.fault = "interface conversion"],
                       command |-> "", args |-> ""]
                 ELSE [m |-> a.m, command |-> c.value.s, args |-> a.value.s]

\* the opcodes that pop one value, CREATE_AGENT wrongly among them
PopOpcodes_WithCreateAgent ==
    {"POP", "PRINT", "SET_AGENT_GOAL", "ADD_AGENT_CAPABILITY",
     "SET_EVENT_HANDLER_EVENT", "ADD_AGENT_EVENT_HANDLER",
     "ADD_FUNCTION_ARGUMENT", "ADD_AGENT_FUNCTION", "CREATE_AGENT"}

\* strings.Split(args, " ") for the strings that reach the stack: a string
\* constant is "String constant " followed by its index, the output of a host
\* command is one word
splitArgs(args) ==
    IF \E i \in 0..(LocalsSize - 1) : args = getStringConstant(i)
    THEN LET i == CHOOSE j \in 0..(LocalsSize - 1) : args = getStringConstant(j)
         IN  <<"String", "constant", ToString(i)>>
    ELSE <<args>>

\* cmd := exec.Command(command, strings.Split(args, " ")...) in OpSyscall and
\* OpExec: the command spawned and its argument fields
hostCommand(m) ==
    LET c == popCommand(m)
    IN  [command |-> c.command, fields |-> splitArgs(c.args)]

PopOpcodes == {"POP", "PRINT", "SET_AGENT_GOAL", "ADD_AGENT_CAPABILITY",
               "SET_EVENT_HANDLER_EVENT", "ADD_AGENT_EVENT_HANDLER",
               "ADD_FUNCTION_ARGUMENT", "ADD_AGENT_FUNCTION"}
NoOpcodes  == {"CREATE_AGENT", "CREATE_EVENT_HANDLER", "CREATE_FUNCTION"}

\* a step that adds two to pc
advance_ByTwo(m) == IF m.fault # "none" THEN m ELSE [m EXCEPT !.pc = @ + 2]

\* the final "vm.pc++" of step, skipped by a panic
advance(m) == IF m.fault # "none" THEN m ELSE [m EXCEPT !.pc = @ + 1]

\* func (vm *VM) step().  hostOk: whether the host command that OpSyscall or
\* OpExec runs returns without error.
step(m, instrs, hostOk) ==
    IF m.pc >= Len(instrs) THEN [m EXCEPT !.running = FALSE]
    ELSE LET instr == instrs[m.pc + 1]
             op    == instr.Opcode
         IN  CASE op \in {"ADD", "SUB", "MUL", "DIV"} ->
                    advance(executeBinaryOp(m, op))
               [] op = "PUSH" -> advance(push(m, IntV(instr.Operand)))
               [] op \in PopOpcodes -> advance(popStack(m).m)
               [] op = "SET_LOCAL" ->
                    LET r == popStack(m)
                    IN  IF instr.Operand < 0 \/ instr.Operand >= LocalsSize
                        THEN [r.m EXCEPT !.fault = "index out of range"]
                        ELSE advance([r.m EXCEPT !.locals =
                                          MapPut(@, instr.Operand, r.value)])
               [] op = "GET_LOCAL" ->
                    IF instr.Operand < 0 \/ instr.Operand >= LocalsSize
                    THEN [m EXCEPT !.fault = "index out of range"]
                    ELSE advance(push(m, IF instr.Operand \in DOMAIN m.locals
                                         THEN m.locals[instr.Operand] ELSE NilV))
               [] op = "CALL" ->
                    [m EXCEPT !.callStack = Append(@, m.pc + 1), !.pc = instr.Operand]
               [] op = "RETURN" ->
                    IF Len(m.callStack) = 0 THEN [m EXCEPT !.running = FALSE]
                    ELSE [m EXCEPT !.pc = m.callStack[Len(m.callStack)],
                                   !.callStack = SubSeq(@, 1, Len(@) - 1)]
               [] op = "HALT" -> advance([m EXCEPT !.running = FALSE])
               [] op \in NoOpcodes -> advance(m)
               [] op = "SYSCALL" -> advance(popCommand(m).m)
               [] op = "EXEC" ->
                    LET c == popCommand(m)
                    IN  IF c.m.fault = "none" /\ hostOk
                        THEN advance(push(c.m, StrV("output")))
                        ELSE advance(c.m)
               [] op = "LOG" ->
                    LET r == popStack(m)
                    IN  advance([r.m EXCEPT !.logged = Append(@, r.value)])
               [] op = "PUSH_STRING" ->
                    advance(push(m, StrV(getStringConstant(instr.Operand))))
               [] OTHER -> advance([m EXCEPT !.running = FALSE])

\* func (vm *VM) GetLastResult() interface{}
GetLastResult(m) == IF Len(m.stack) > 0 THEN m.stack[Len(m.stack)] ELSE NilV

-----------------------------------------------------------------------------
(***************************************************************************)
(* PROGRAMS                                                                *)
(*                                                                         *)
(* The statements programs are built from, as the parser would hand them   *)
(* over for the source text in the comment; ln is the line they stand on.  *)
(***************************************************************************)
Statements(ln) == {
    \* var x: int = 42 * 7;
    VarStmt("x", "int", Infix("*", IntLit(42), IntLit(7)), ln),
    \* var x: int = y;
    VarStmt("x", "int", Ident("y"), ln),
    \* var x: int = 1 + "a";
    VarStmt("x", "int", Infix("+", IntLit(1), StrLit("a")), ln),
    \* var y: string = "a";
    VarStmt("y", "string", StrLit("a"), ln),
    \* var x: int = 1 / 0;
    VarStmt("x", "int", Infix("/", IntLit(1), IntLit(0)), ln),
    \* x;
    ExprStmt(Ident("x"), ln),
    \* (1 - 4) / 2;
    ExprStmt(Infix("/", Infix("-", IntLit(1), IntLit(4)), IntLit(2)), ln),
    \* log("hi");
    ExprStmt(Call("log", <<StrLit("hi")>>), ln),
    \* log(1);
    ExprStmt(Call("log", <<IntLit(1)>>), ln),
    \* log(1 + "a");
    ExprStmt(Call("log", <<Infix("+", IntLit(1), StrLit("a"))>>), ln),
    \* log(s());
    ExprStmt(Call("log", <<Call("s", <<>>)>>), ln),
    \* syscall("a");
    ExprStmt(Call("syscall", <<StrLit("a")>>), ln),
    \* syscall("ls", "-la");
    ExprStmt(Call("syscall", <<StrLit("ls"), StrLit("-la")>>), ln),
    \* exec("ls", "-la");
    ExprStmt(Call("exec", <<StrLit("ls"), StrLit("-la")>>), ln),
    \* f(3);
    ExprStmt(Call("f", <<IntLit(3)>>), ln),
    \* f("a");
    ExprStmt(Call("f", <<StrLit("a")>>), ln),
    \* return 1;
    ReturnStmt(IntLit(1), ln),
    \* function f(a: int): int { return a * 2; }
    Function("f", <<Arg("a", "int")>>, "int",
             <<ReturnStmt(Infix("*", Ident("a"), IntLit(2)), ln)>>, ln),
    \* function s(): string { return "a"; }
    Function("s", <<>>, "string", <<ReturnStmt(StrLit("a"), ln)>>, ln),
    \* function f(x: string): int { return z; }
    Function("f", <<Arg("x", "string")>>, "int", <<ReturnStmt(Ident("z"), ln)>>, ln),
    \* function h(a: int, b: string): int { return a + b; }
    Function("h", <<Arg("a", "int"), Arg("b", "string")>>, "int",
             <<ReturnStmt(Infix("+", Ident("a"), Ident("b")), ln)>>, ln),
    \* agent A { goal: "g"; capabilities: ["X"]; behavior { on "e" { log("hi"); } } }
    AgentStmt("A", <<"g">>, <<"X">>,
              << <<EventHandler("e", <<ExprStmt(Call("log", <<StrLit("hi")>>), ln)>>)>> >>,
              <<>>, ln),
    \* agent A { function f(a: int): int { return a * 2; } }
    AgentStmt("A", <<>>, <<>>, <<>>,
              <<Function("f", <<Arg("a", "int")>>, "int",
                         <<ReturnStmt(Infix("*", Ident("a"), IntLit(2)), ln)>>, ln)>>, ln),
    \* agent B { behavior { on "e" { var x: int = y; } } }
    AgentStmt("B", <<>>, <<>>,
              << <<EventHandler("e", <<VarStmt("x", "int", Ident("y"), ln)>>)>> >>,
              <<>>, ln),
    \* agent B { behavior { on "e" { } } function k(): int { } }
    AgentStmt("B", <<>>, <<>>, << <<EventHandler("e", <<>>)>> >>,
              <<Function("k", <<>>, "int", <<>>, ln)>>, ln)
    }

\* the programs of exactly n statements, statement i on line i
RECURSIVE ProgramsOfLength(_)
ProgramsOfLength(n) ==
    IF n = 0 THEN {<<>>}
    ELSE {Append(p, st) : p \in ProgramsOfLength(n - 1), st \in Statements(n)}

Programs == UNION {ProgramsOfLength(n) : n \in 1..MaxStmts}

-----------------------------------------------------------------------------
(***************************************************************************)
(* THE BUILD PIPELINE  (src/main.go runBuild, lines 108-127)               *)
(***************************************************************************)
NoOp == [op |-> "none", name |-> "", type |-> "", result |-> "", prog |-> <<>>]

\* no run of the pipeline has ended yet
NoRun == [stage |-> "none", instructions |-> <<>>, result |-> NilV]

IdleRuns == firstRun = NoRun /\ replLines = 0

IdleSemantic ==
    /\ scopes = NewSymbolTable /\ semErr = Nil /\ semLog = <<>> /\ lastOp = NoOp

IdlePipeline ==
    /\ stage = "idle" /\ program = <<>>
    /\ instructions = <<>> /\ genStatus = "none"

IdleVM ==
    /\ stack = <<>> /\ locals = NewVM.locals /\ pc = 0 /\ running = FALSE
    /\ callStack = <<>> /\ vmFault = "none" /\ logged = <<>> /\ steps = 0

\* the VM's fields as a machine value
Machine ==
    [stack |-> stack, locals |-> locals, pc |-> pc, running |-> running,
     callStack |-> callStack, fault |-> vmFault, logged |-> logged]

SetMachine(m) ==
    /\ stack' = m.stack /\ locals' = m.locals /\ pc' = m.pc
    /\ running' = m.running /\ callStack' = m.callStack
    /\ vmFault' = m.fault /\ logged' = m.logged

\* the VM's fields hold the machine value m
SetMachineTo(m) ==
    /\ stack = m.stack /\ locals = m.locals /\ pc = m.pc
    /\ running = m.running /\ callStack = m.callStack
    /\ vmFault = m.fault /\ logged = m.logged

\* program := p.ParseProgram() has returned a program with no parser error
\* and st := semantic.NewSymbolTable(l) is fresh
Init ==
    /\ IdleLexer /\ IdleParser /\ IdleRuns
    /\ program \in Programs
    /\ stage = "parsed"
    /\ IdleSemantic
    /\ instructions = <<>> /\ genStatus = "none"
    /\ IdleVM

\* runBuild going on to the generator whatever Analyse returned
RunAnalyse_ErrorIgnored ==
    /\ stage = "parsed"
    /\ LET r == Analyse(scopes, program)
       IN  /\ scopes' = r.scopes
           /\ semErr' = r.err
           /\ semLog' = r.log
           /\ stage' = "analysed"
    /\ UNCHANGED <<replLines, firstRun, lexVars, parVars, program, lastOp, genVars, vmVars>>

\* err = st.Analyse(program); if err != nil { ...; os.Exit(1) }
RunAnalyse ==
    /\ stage = "parsed"
    /\ LET r == Analyse(scopes, program)
       IN  /\ scopes' = r.scopes
           /\ semErr' = r.err
           /\ semLog' = r.log
           /\ stage' = IF r.err = Nil THEN "analysed" ELSE "exit1"
    /\ UNCHANGED <<replLines, firstRun, lexVars, parVars, program, lastOp, genVars, vmVars>>

\* instructions := codegen.GenerateBytecode(program, st);
\* virtualMachine := vm.New(instructions)
RunGenerate ==
    /\ stage = "analysed"
    /\ LET cg == GenerateBytecode(program)
       IN  IF cg.panic # ""
           THEN /\ genStatus' = cg.panic
                /\ instructions' = cg.instructions
                /\ stage' = "crashed"
                /\ UNCHANGED vmVars
           ELSE /\ genStatus' = "ok"
                /\ instructions' = cg.instructions
                /\ stage' = "running"
                /\ SetMachine(NewVM)
                /\ UNCHANGED steps
    /\ UNCHANGED <<replLines, firstRun, lexVars, parVars, program, semVars>>

\* one iteration of "for vm.running { vm.step() }" in VM.Run
RunStep ==
    /\ stage = "running"
    /\ running
    /\ steps < MaxSteps
    /\ \E hostOk \in BOOLEAN :
         LET m == step(Machine, instructions, hostOk)
         IN  /\ SetMachine(m)
             /\ stage' = IF m.fault # "none" THEN "crashed" ELSE "running"
    /\ steps' = steps + 1
    /\ UNCHANGED <<replLines, firstRun, lexVars, parVars, program, semVars, genVars>>

\* vm.running is false: the loop ends and VM.Run returns
RunReturns ==
    /\ stage = "running"
    /\ ~running
    /\ stage' = "done"
    /\ UNCHANGED <<replLines, firstRun, lexVars, parVars, program, semVars, genVars, vmVars>>

Next == RunAnalyse \/ RunGenerate \/ RunStep \/ RunReturns

Spec == Init /\ [][Next]_vars

-----------------------------------------------------------------------------
(***************************************************************************)
(* THE LEXER ALONE                                                         *)
(***************************************************************************)
InitLex ==
    /\ InitLexer /\ IdleParser /\ IdleRuns
    /\ IdlePipeline /\ IdleSemantic /\ IdleVM

NextLex == NextToken /\ UNCHANGED <<replLines, firstRun, parVars, stage, program, semVars, genVars, vmVars>>

SpecLexer == InitLex /\ [][NextLex]_vars

-----------------------------------------------------------------------------
(***************************************************************************)
(* THE VIRTUAL MACHINE ALONE                                               *)
(*                                                                         *)
(* VM.Run on the code of one expression statement `l op r;`, and the       *)
(* functions add, sub, mul and div applied through one arithmetic          *)
(* instruction to every pair of operands, float64 values among them.       *)
(* Float operands are fractions whose sums, products and quotients a       *)
(* float64 represents exactly.                                             *)
(***************************************************************************)
ArithOpcodes == {"ADD", "SUB", "MUL", "DIV"}

Operators == {"+", "-", "*", "/"}

IntOperands == {-3, 0, 2, 7}

Operands ==
    {IntV(i) : i \in IntOperands}
    \cup {FloatV(0, 1), FloatV(1, 2), FloatV(-2, 1), FloatV(1, 4)}
    \cup {StrV("a"), NilV}

\* l op r;
BinaryProgram(op, l, r) == <<ExprStmt(Infix(op, IntLit(l), IntLit(r)), 1)>>

\* var x: int = 1 / 0;
DivisionByZero(ln) == VarStmt("x", "int", Infix("/", IntLit(1), IntLit(0)), ln)

\* the programs that execute `var x: int = 1 / 0;`: alone, after `2 * 7;`
\* and before `log("hi");`
DivisionPrograms ==
    {<<DivisionByZero(1)>>,
     <<ExprStmt(Infix("*", IntLit(2), IntLit(7)), 1), DivisionByZero(2)>>,
     <<DivisionByZero(1), ExprStmt(Call("log", <<StrLit("hi")>>), 2)>>}

ArithmeticPrograms ==
    {BinaryProgram(op, l, r) : op \in Operators, l, r \in IntOperands}
    \cup DivisionPrograms

\* either the pipeline is about to analyse an arithmetic program, or a VM
\* is about to execute one arithmetic instruction on two operands
InitVM ==
    /\ IdleLexer /\ IdleParser /\ IdleSemantic /\ IdleRuns
    /\ locals = NewVM.locals /\ pc = 0
    /\ callStack = <<>> /\ vmFault = "none" /\ logged = <<>> /\ steps = 0
    /\ \/ /\ program \in ArithmeticPrograms
          /\ stage = "parsed" /\ genStatus = "none"
          /\ instructions = <<>> /\ stack = <<>> /\ running = FALSE
       \/ \E opcode \in ArithOpcodes, l, r \in Operands :
             /\ program = <<>>
             /\ stage = "running" /\ genStatus = "ok"
             /\ instructions = <<Instruction(opcode, 0)>>
             /\ stack = <<l, r>> /\ running = TRUE

NextVM == RunAnalyse \/ RunGenerate \/ RunStep \/ RunReturns

SpecVM == InitVM /\ [][NextVM]_vars

-----------------------------------------------------------------------------
(***************************************************************************)
(* THE VIRTUAL MACHINE ON ANY INSTRUCTION LIST                             *)
(*                                                                         *)
(* vm.New(instructions) followed by VM.Run, for every instruction list of  *)
(* up to MaxCode instructions over the opcodes of vm.go, JUMP and          *)
(* JUMP_IF_FALSE among them, and for the list GenerateBytecode produces    *)
(* for every program of the catalogue.                                     *)
(***************************************************************************)
AgentConstructionOpcodes ==
    {"CREATE_AGENT", "SET_AGENT_GOAL", "ADD_AGENT_CAPABILITY",
     "CREATE_EVENT_HANDLER", "SET_EVENT_HANDLER_EVENT", "ADD_AGENT_EVENT_HANDLER",
     "CREATE_FUNCTION", "ADD_FUNCTION_ARGUMENT", "ADD_AGENT_FUNCTION"}

CodeAlphabet ==
    {Instruction(o, 0) : o \in AgentConstructionOpcodes}
    \cup {Instruction(o, 0) : o \in {"ADD", "POP", "HALT", "RETURN", "PUSH", "PUSH_STRING",
                                      "SET_LOCAL", "GET_LOCAL"}}
    \cup {Instruction("LOG", 1), Instruction("SYSCALL", 2), Instruction("EXEC", 2),
          Instruction("PUSH", 1)}
    \cup {Instruction(o, 2) : o \in {"CALL", "JUMP", "JUMP_IF_FALSE"}}

CodeLists == UNION {[1..n -> CodeAlphabet] : n \in 0..MaxCode}

InitCode ==
    /\ IdleLexer /\ IdleParser /\ IdleRuns /\ IdleSemantic
    /\ stage = "running" /\ genStatus = "ok"
    /\ SetMachineTo(NewVM) /\ steps = 0
    /\ \/ /\ program = <<>>
          /\ instructions \in CodeLists
       \/ /\ program \in Programs
          /\ GenerateBytecode(program).panic = ""
          /\ instructions = GenerateBytecode(program).instructions

NextCode == RunStep \/ RunReturns

SpecCode == InitCode /\ [][NextCode]_vars

-----------------------------------------------------------------------------
(***************************************************************************)
(* THE PIPELINE RUN TWICE                                                  *)
(*                                                                         *)
(* runBuild is run on a source file and, once that process has ended, run  *)
(* again on the same file.  The second process starts from a fresh lexer,  *)
(* parser, symbol table, generator and VM: nothing but the source text     *)
(* passes from one run to the next.                                        *)
(***************************************************************************)
\* the first run has ended: what it produced is set aside and runBuild
\* starts again on the same program
RunAgain ==
    /\ stage \in {"exit1", "crashed", "done"}
    /\ firstRun = NoRun
    /\ firstRun' = [stage |-> stage, instructions |-> instructions,
                    result |-> GetLastResult(Machine)]
    /\ stage' = "parsed"
    /\ scopes' = NewSymbolTable /\ semErr' = Nil /\ semLog' = <<>>
    /\ instructions' = <<>> /\ genStatus' = "none"
    /\ stack' = <<>> /\ locals' = NewVM.locals /\ pc' = 0 /\ running' = FALSE
    /\ callStack' = <<>> /\ vmFault' = "none" /\ logged' = <<>> /\ steps' = 0
    /\ UNCHANGED <<replLines, lexVars, parVars, program, lastOp>>

NextTwice == RunAnalyse \/ RunGenerate \/ RunStep \/ RunReturns \/ RunAgain

SpecTwice == Init /\ [][NextTwice]_vars

-----------------------------------------------------------------------------
(***************************************************************************)
(* THE BUILD COMMAND FROM ITS START  (src/main.go runBuild, lines 92-143)  *)
(*                                                                         *)
(* runBuild from the parse on.  Parser.Errors is called by runBuild and is *)
(* not part of src/pkg/parser/parser.go: what it returns is modelled from  *)
(* section 7 of the specification, a list of messages that is empty        *)
(* exactly if the parse reported no error.                                 *)
(***************************************************************************)
ParserErrorLists == {<<>>, <<"expected next token to be :">>}

InitBuild ==
    /\ IdleLexer /\ IdleParser /\ IdleRuns /\ IdleSemantic /\ IdleVM
    /\ stage = "start" /\ program = <<>>
    /\ instructions = <<>> /\ genStatus = "none"

\* program := p.ParseProgram(); if len(p.Errors()) != 0 { ...; os.Exit(1) }
RunParse ==
    /\ stage = "start"
    /\ program' \in Programs
    /\ perrors' \in ParserErrorLists
    /\ stage' = IF perrors' # <<>> THEN "exit1" ELSE "parsed"
    /\ UNCHANGED <<replLines, firstRun, lexVars, tokens, nread, curToken, peekToken, parsed,
                   pstage, semVars, genVars, vmVars>>

NextBuild == RunParse \/ RunAnalyse \/ RunGenerate \/ RunStep \/ RunReturns

SpecBuild == InitBuild /\ [][NextBuild]_vars

-----------------------------------------------------------------------------
(***************************************************************************)
(* THE REPL  (package repl, src/unnamed/part_000 Start, lines 33-77)       *)
(*                                                                         *)
(* One SymbolTable made before the loop; every line is parsed, analysed    *)
(* against that table, compiled and run on a VM of its own.  A line with   *)
(* a parser error or a semantic error is logged and the loop goes on to    *)
(* the next line.  Parser.Errors is modelled as in the build command.      *)
(***************************************************************************)
MaxLines == 3

\* the lines typed: one statement each
ReplLines == ProgramsOfLength(1)

\* symbolTable := semantic.NewSymbolTable(lexer.New("")), before the loop
InitRepl ==
    /\ IdleLexer /\ IdleParser /\ IdleRuns /\ IdleSemantic /\ IdleVM
    /\ stage = "prompt" /\ program = <<>>
    /\ instructions = <<>> /\ genStatus = "none"

\* scanner.Scan(); program := p.ParseProgram();
\* if len(p.Errors()) != 0 { ...; continue }
ReplRead ==
    /\ stage = "prompt"
    /\ replLines < MaxLines
    /\ replLines' = replLines + 1
    /\ program' \in ReplLines
    /\ perrors' \in ParserErrorLists
    /\ stage' = IF perrors' # <<>> THEN "prompt" ELSE "parsed"
    /\ instructions' = <<>> /\ genStatus' = "none"
    /\ stack' = <<>> /\ locals' = NewVM.locals /\ pc' = 0 /\ running' = FALSE
    /\ callStack' = <<>> /\ vmFault' = "none" /\ logged' = <<>> /\ steps' = 0
    /\ UNCHANGED <<firstRun, lexVars, tokens, nread, curToken, peekToken, parsed,
                   pstage, semVars>>

\* err := symbolTable.Analyse(program); if err != nil { ...; continue }
ReplAnalyse ==
    /\ stage = "parsed"
    /\ LET r == Analyse(scopes, program)
       IN  /\ scopes' = r.scopes
           /\ semErr' = r.err
           /\ semLog' = r.log
           /\ stage' = IF r.err = Nil THEN "analysed" ELSE "prompt"
    /\ UNCHANGED <<replLines, firstRun, lexVars, parVars, program, lastOp, genVars, vmVars>>

\* virtualMachine.Run() has returned: result := virtualMachine.GetLastResult();
\* fmt.Printf("%v\n", result), and the loop goes on to the next line
ReplPrint ==
    /\ stage = "running"
    /\ ~running
    /\ stage' = "prompt"
    /\ UNCHANGED <<replLines, firstRun, lexVars, parVars, program, semVars, genVars, vmVars>>

NextRepl == ReplRead \/ ReplAnalyse \/ RunGenerate \/ RunStep \/ ReplPrint

SpecRepl == InitRepl /\ [][NextRepl]_vars

-----------------------------------------------------------------------------
(***************************************************************************)
(* THE SYMBOL TABLE AND ITS CLIENT                                         *)
(*                                                                         *)
(* One SymbolTable on which a client applies the operations of package     *)
(* semantic: either Analyse on a whole program, or the four scope          *)
(* operations and the lookup in any order.                                 *)
(***************************************************************************)
Names == {"x", "y"}
Types == {"int", "string"}
Signatures == {FunctionSignature(<<"int">>, "int")}

\* agent A { }  agent A { }
TwoAgentsProgram ==
    <<AgentStmt("A", <<>>, <<>>, <<>>, <<>>, 1), AgentStmt("A", <<>>, <<>>, <<>>, <<>>, 2)>>

\* var x: int = 1;  function f(x: string): int { log(x); }
ShadowProgram ==
    <<VarStmt("x", "int", IntLit(1), 1),
      Function("f", <<Arg("x", "string")>>, "int",
               <<ExprStmt(Call("log", <<Ident("x")>>), 2)>>, 2)>>

\* var x: int = 1;  function f(x: string): int { log(x); }  log(x);
OuterAgainProgram == Append(ShadowProgram, ExprStmt(Call("log", <<Ident("x")>>), 3))

\* function g(y: string): int { log(y); }  y;
PoppedNameProgram ==
    <<Function("g", <<Arg("y", "string")>>, "int",
               <<ExprStmt(Call("log", <<Ident("y")>>), 1)>>, 1),
      ExprStmt(Ident("y"), 2)>>

\* function g(y: string): int { return z; }
LeakProgram ==
    <<Function("g", <<Arg("y", "string")>>, "int", <<ReturnStmt(Ident("z"), 1)>>, 1)>>

ClientPrograms ==
    {TwoAgentsProgram, ShadowProgram, OuterAgainProgram, PoppedNameProgram, LeakProgram}

Op(o, n, t, r, p) == [op |-> o, name |-> n, type |-> t, result |-> r, prog |-> p]

InitSymTab ==
    /\ IdleLexer /\ IdleParser /\ IdleRuns
    /\ stage = "symtab" /\ program = <<>>
    /\ IdleSemantic
    /\ instructions = <<>> /\ genStatus = "none"
    /\ IdleVM

ClientFrame == UNCHANGED <<replLines, firstRun, lexVars, parVars, program, genVars, vmVars>>

ClientPushScope ==
    /\ stage = "symtab"
    /\ Len(scopes) < MaxDepth
    /\ scopes' = pushScope(scopes)
    /\ lastOp' = Op("pushScope", "", "", "", <<>>)
    /\ UNCHANGED <<stage, semErr, semLog>>
    /\ ClientFrame

\* popScope panics on the global scope, which ends the process
ClientPopScope ==
    /\ stage = "symtab"
    /\ IF Len(scopes) > 1
       THEN /\ scopes' = popScope(scopes)
            /\ lastOp' = Op("popScope", "", "", "", <<>>)
            /\ UNCHANGED stage
       ELSE /\ lastOp' = Op("popScope", "", "", "cannot pop the global scope", <<>>)
            /\ stage' = "crashed"
            /\ UNCHANGED scopes
    /\ UNCHANGED <<semErr, semLog>>
    /\ ClientFrame

ClientDeclareVariable ==
    /\ stage = "symtab"
    /\ \E n \in Names, t \in Types :
         LET r == DeclareVariable(scopes, n, t)
         IN  /\ scopes' = r.scopes
             /\ semErr' = r.err
             /\ lastOp' = Op("DeclareVariable", n, t, "", <<>>)
    /\ UNCHANGED <<stage, semLog>>
    /\ ClientFrame

ClientDeclareFunction ==
    /\ stage = "symtab"
    /\ \E n \in {"f"}, sig \in Signatures :
         LET r == DeclareFunction(scopes, n, sig)
         IN  /\ scopes' = r.scopes
             /\ semErr' = r.err
             /\ lastOp' = Op("DeclareFunction", n, sig.ReturnType, "", <<>>)
    /\ UNCHANGED <<stage, semLog>>
    /\ ClientFrame

ClientGetVariableType ==
    /\ stage = "symtab"
    /\ \E n \in Names :
         LET r == GetVariableType(scopes, n)
         IN  /\ semErr' = r.err
             /\ lastOp' = Op("GetVariableType", n, "", r.type, <<>>)
    /\ UNCHANGED <<stage, scopes, semLog>>
    /\ ClientFrame

\* st := semantic.NewSymbolTable(l); err = st.Analyse(program): Analyse on a
\* table nothing else has touched, which nothing operates on afterwards
\* (main.go:117-124)
ClientAnalyse ==
    /\ stage = "symtab"
    /\ scopes = NewSymbolTable /\ lastOp = NoOp
    /\ \E p \in ClientPrograms :
         LET r == Analyse(scopes, p)
         IN  /\ scopes' = r.scopes
             /\ semErr' = r.err
             /\ semLog' = r.log
             /\ lastOp' = Op("Analyse", "", "", "", p)
    /\ stage' = "analysed"
    /\ ClientFrame

NextSymTab ==
    \/ ClientPushScope
    \/ ClientPopScope
    \/ ClientDeclareVariable
    \/ ClientDeclareFunction
    \/ ClientGetVariableType
    \/ ClientAnalyse

SpecSymTab == InitSymTab /\ [][NextSymTab]_vars

-----------------------------------------------------------------------------
(***************************************************************************)
(* PARSER  (src/pkg/parser/parser.go)                                      *)
(*                                                                         *)
(* The parser's lexer is taken at the level of tokens: it returns the      *)
(* tokens of `tokens` in order and EOF from then on.  A parser value is    *)
(* the record [nread, cur, peek]; a production returns                     *)
(*   [p, node, hang]                                                       *)
(* the parser left behind, the node returned (NilNode for nil) and whether *)
(* the production never returns.                                           *)
(***************************************************************************)
MaxTokens == 3     \* longest token stream built from the token alphabet

Tk(t, lit) == Token(t, lit, 0)
ZeroToken  == Tk("", "")

\* l.NextToken() for the i-th time
tokenAt(ts, i) == IF i <= Len(ts) THEN ts[i] ELSE EOFToken

\* func (p *Parser) nextToken()
nextToken(ts, p) ==
    [nread |-> p.nread + 1, cur |-> p.peek, peek |-> tokenAt(ts, p.nread + 1)]

\* func New(l *lexer.Lexer) *Parser
NewParser(ts) == nextToken(ts, nextToken(ts, [nread |-> 0, cur |-> ZeroToken, peek |-> ZeroToken]))

curTokenIs(p, t)  == p.cur.Type = t
peekTokenIs(p, t) == p.peek.Type = t

\* func (p *Parser) expectPeek(t lexer.TokenType) bool
expectPeek(ts, p, t) ==
    IF peekTokenIs(p, t) THEN [ok |-> TRUE, p |-> nextToken(ts, p)]
    ELSE [ok |-> FALSE, p |-> p]

NilNode == [kind |-> "nil"]
Ret(p, node) == [p |-> p, node |-> node, hang |-> FALSE]
Hang(p)      == [p |-> p, node |-> NilNode, hang |-> TRUE]

\* func (p *Parser) parseExpression() *Expression.  Every path through the
\* switch returns nil (the nodes parseIdentifier, parseIntegerLiteral, ...
\* build are dropped); with curToken a SEMICOLON the inner loop is skipped
\* and the outer loop, which changes nothing, runs again without end: the
\* production does not return, and ParseProgram stays in it.
parseExpression(ts, p0) ==
    LET p == nextToken(ts, p0)
    IN  IF p.cur.Type = "RBRACE" THEN Ret(p, NilNode)
        ELSE IF p.cur.Type = "SEMICOLON" THEN Hang(p)
        ELSE CASE p.cur.Type \in {"IDENT", "INT", "FLOAT", "STRING", "BOOL"} ->
                    Ret(p, NilNode)
               [] OTHER -> Ret(p, NilNode)

\* func (p *Parser) parseDataType() *DataType
parseDataType(ts, p) ==
    IF p.peek.Type \in {"INT", "FLOAT", "STRING", "BOOL"}
    THEN LET q == nextToken(ts, p)
         IN  Ret(q, [kind |-> "datatype", name |-> q.cur.Literal])
    ELSE Ret(p, NilNode)

\* func (p *Parser) parseVarStatement() *VarStatement
parseVarStatement(ts, p) ==
    LET e1 == expectPeek(ts, p, "IDENT")
    IN  IF ~e1.ok THEN Ret(e1.p, NilNode)
        ELSE LET e2 == expectPeek(ts, e1.p, "COLON")
             IN  IF ~e2.ok THEN Ret(e2.p, NilNode)
                 ELSE LET dt == parseDataType(ts, e2.p)
                      IN  IF dt.node = NilNode THEN Ret(dt.p, NilNode)
                          ELSE LET e3 == expectPeek(ts, dt.p, "ASSIGN")
                               IN  IF ~e3.ok THEN Ret(e3.p, NilNode)
                                   ELSE LET ex == parseExpression(ts, e3.p)
                                        IN  IF ex.hang THEN ex
                                            ELSE IF ex.node = NilNode THEN Ret(ex.p, NilNode)
                                            ELSE Ret(ex.p, [kind  |-> "var",
                                                            name  |-> e1.p.cur.Literal,
                                                            type  |-> dt.node.name,
                                                            value |-> ex.node])

\* func (p *Parser) parseGoal() *Goal
parseGoal(ts, p) ==
    LET e1 == expectPeek(ts, p, "COLON")
    IN  IF ~e1.ok THEN Ret(e1.p, NilNode)
        ELSE LET e2 == expectPeek(ts, e1.p, "STRING")
             IN  IF ~e2.ok THEN Ret(e2.p, NilNode)
                 ELSE Ret(e2.p, [kind |-> "goal", value |-> e2.p.cur.Literal])

\* the loop of parseCapabilities
RECURSIVE capabilitiesLoop(_, _, _)
capabilitiesLoop(ts, p, values) ==
    IF curTokenIs(p, "RBRACE") \/ curTokenIs(p, "EOF")
    THEN Ret(p, [kind |-> "capabilities", values |-> values])
    ELSE LET q == nextToken(ts, p)
         IN  CASE q.cur.Type = "STRING"   -> capabilitiesLoop(ts, q, Append(values, q.cur.Literal))
               [] q.cur.Type = "COMMA"    -> capabilitiesLoop(ts, q, values)
               [] q.cur.Type = "RBRACKET" -> Ret(q, [kind |-> "capabilities", values |-> values])
               [] OTHER -> Ret(q, NilNode)

\* func (p *Parser) parseCapabilities() *Capabilities
parseCapabilities(ts, p) ==
    LET e1 == expectPeek(ts, p, "COLON")
    IN  IF ~e1.ok THEN Ret(e1.p, NilNode)
        ELSE LET e2 == expectPeek(ts, e1.p, "LBRACKET")
             IN  IF ~e2.ok THEN Ret(e2.p, NilNode)
                 ELSE capabilitiesLoop(ts, e2.p, <<>>)

\* the loop of parseFunctionParameters over ", IDENT"
RECURSIVE parametersLoop(_, _, _)
parametersLoop(ts, p, identifiers) ==
    IF peekTokenIs(p, "COMMA")
    THEN LET q == nextToken(ts, nextToken(ts, p))
         IN  parametersLoop(ts, q, Append(identifiers, q.cur.Literal))
    ELSE LET e == expectPeek(ts, p, "RPAREN")
         IN  IF ~e.ok THEN Ret(e.p, NilNode)
             ELSE Ret(e.p, [kind |-> "parameters", names |-> identifiers])

\* func (p *Parser) parseFunctionParameters() []*Identifier
parseFunctionParameters(ts, p) ==
    IF peekTokenIs(p, "RPAREN")
    THEN Ret(nextToken(ts, p), [kind |-> "parameters", names |-> <<>>])
    ELSE LET q == nextToken(ts, p)
         IN  parametersLoop(ts, q, <<q.cur.Literal>>)

RECURSIVE parseStatement(_, _)
RECURSIVE blockLoop(_, _, _)
RECURSIVE behaviorLoop(_, _, _)
RECURSIVE agentLoop(_, _, _)

\* the loop of parseBlockStatement
blockLoop(ts, p, statements) ==
    IF curTokenIs(p, "RBRACE") \/ curTokenIs(p, "EOF")
    THEN Ret(p, [kind |-> "block", statements |-> statements])
    ELSE LET r == parseStatement(ts, p)
         IN  IF r.hang THEN r
             ELSE blockLoop(ts, nextToken(ts, r.p),
                            IF r.node # NilNode THEN Append(statements, r.node)
                            ELSE statements)

\* func (p *Parser) parseBlockStatement() *BlockStatement
parseBlockStatement(ts, p) == blockLoop(ts, nextToken(ts, p), <<>>)

\* func (p *Parser) parseEventHandler() *EventHandler
parseEventHandler(ts, p) ==
    LET e1 == expectPeek(ts, p, "STRING")
    IN  IF ~e1.ok THEN Ret(e1.p, NilNode)
        ELSE LET e2 == expectPeek(ts, e1.p, "LBRACE")
             IN  IF ~e2.ok THEN Ret(e2.p, NilNode)
                 ELSE LET b == parseBlockStatement(ts, e2.p)
                      IN  IF b.hang THEN b
                          ELSE Ret(b.p, [kind  |-> "handler",
                                         event |-> e1.p.cur.Literal,
                                         block |-> b.node])

\* the loop of parseBehavior; the break of case RBRACE leaves the switch, and
\* the loop's condition then ends the loop
behaviorLoop(ts, p, handlers) ==
    IF curTokenIs(p, "RBRACE") \/ curTokenIs(p, "EOF")
    THEN Ret(p, [kind |-> "behavior", handlers |-> handlers])
    ELSE LET q == nextToken(ts, p)
         IN  CASE q.cur.Type = "ON" ->
                    LET h == parseEventHandler(ts, q)
                    IN  IF h.hang THEN h
                        ELSE behaviorLoop(ts, h.p, Append(handlers, h.node))
               [] q.cur.Type = "RBRACE" -> behaviorLoop(ts, q, handlers)
               [] OTHER -> Ret(q, NilNode)

\* func (p *Parser) parseBehavior() *Behavior
parseBehavior(ts, p) ==
    LET e == expectPeek(ts, p, "LBRACE")
    IN  IF ~e.ok THEN Ret(e.p, NilNode) ELSE behaviorLoop(ts, e.p, <<>>)

\* func (p *Parser) parseFunction() *Function
parseFunction(ts, p) ==
    LET e1 == expectPeek(ts, p, "IDENT")
    IN  IF ~e1.ok THEN Ret(e1.p, NilNode)
        ELSE LET e2 == expectPeek(ts, e1.p, "LPAREN")
    IN  IF ~e2.ok THEN Ret(e2.p, NilNode)
        ELSE LET ps == parseFunctionParameters(ts, e2.p)
                 e3 == expectPeek(ts, ps.p, "COLON")
    IN  IF ~e3.ok THEN Ret(e3.p, NilNode)
        ELSE LET e4 == expectPeek(ts, e3.p, "IDENT")
    IN  IF ~e4.ok THEN Ret(e4.p, NilNode)
        ELSE LET e5 == expectPeek(ts, e4.p, "LBRACE")
    IN  IF ~e5.ok THEN Ret(e5.p, NilNode)
        ELSE LET b == parseBlockStatement(ts, e5.p)
    IN  IF b.hang THEN b
        ELSE Ret(b.p, [kind       |-> "function",
                       name       |-> e1.p.cur.Literal,
                       parameters |-> ps.node,
                       rtype      |-> e4.p.cur.Literal,
                       body       |-> b.node])

\* the loop of parseAgentStatement over the agent's body
agentLoop(ts, p, stmt) ==
    IF curTokenIs(p, "RBRACE") \/ curTokenIs(p, "EOF") THEN Ret(p, stmt)
    ELSE LET q == nextToken(ts, p)
         IN  CASE q.cur.Type = "GOAL" ->
                    LET g == parseGoal(ts, q)
                    IN  agentLoop(ts, g.p, [stmt EXCEPT !.goal = g.node])
               [] q.cur.Type = "CAPABILITIES" ->
                    LET c == parseCapabilities(ts, q)
                    IN  agentLoop(ts, c.p, [stmt EXCEPT !.capabilities = c.node])
               [] q.cur.Type = "BEHAVIOR" ->
                    LET b == parseBehavior(ts, q)
                    IN  IF b.hang THEN b
                        ELSE agentLoop(ts, b.p, [stmt EXCEPT !.behaviors = Append(@, b.node)])
               [] q.cur.Type = "FUNCTION" ->
                    LET f == parseFunction(ts, q)
                    IN  IF f.hang THEN f
                        ELSE agentLoop(ts, f.p, [stmt EXCEPT !.functions = Append(@, f.node)])
               [] OTHER -> agentLoop(ts, q, stmt)

\* func (p *Parser) parseAgentStatement() (*Agent, error); an error is a
\* NilNode here: parseStatement prints it and returns nil
parseAgentStatement(ts, p) ==
    LET e1 == expectPeek(ts, p, "IDENT")
    IN  IF ~e1.ok THEN Ret(e1.p, NilNode)
        ELSE LET e2 == expectPeek(ts, e1.p, "LBRACE")
             IN  IF ~e2.ok THEN Ret(e2.p, NilNode)
                 ELSE agentLoop(ts, e2.p,
                                [kind |-> "agent", name |-> e1.p.cur.Literal,
                                 goal |-> NilNode, capabilities |-> NilNode,
                                 behaviors |-> <<>>, functions |-> <<>>])

\* func (p *Parser) parseStatement() Statement
parseStatement(ts, p) ==
    CASE p.cur.Type = "AGENT" -> parseAgentStatement(ts, p)
      [] p.cur.Type = "VAR"   -> parseVarStatement(ts, p)
      [] OTHER -> Ret(p, NilNode)

\* the token the lexer returns for a word of source text: a keyword, a
\* punctuation mark or operator, a digit string, a quoted string, or else an
\* identifier (lexer.go:71-84, 133-197)
T(word) ==
    CASE word \in {"var", "agent", "goal", "capabilities", "behavior", "function", "on"} ->
            Tk(CASE word = "var" -> "VAR" [] word = "agent" -> "AGENT"
                 [] word = "goal" -> "GOAL" [] word = "capabilities" -> "CAPABILITIES"
                 [] word = "behavior" -> "BEHAVIOR" [] word = "function" -> "FUNCTION"
                 [] word = "on" -> "ON", word)
      [] word = "int" -> Tk("INT", word)
      [] word \in {":", ";", "=", ",", "{", "}", "(", ")", "[", "]", "+", "-", "*"} ->
            Tk(punctuation(word), word)
      [] word \in {"1", "2"} -> Tk("INT", word)
      [] word \in {"\"g\"", "\"X\"", "\"e\""} ->
            Tk("STRING", CASE word = "\"g\"" -> "g" [] word = "\"X\"" -> "X"
                           [] word = "\"e\"" -> "e")
      [] OTHER -> Tk("IDENT", word)

Lex(words) == [i \in 1..Len(words) |-> T(words[i])]

\* the source texts parsed, word by word
Source ==
    [sumProduct  |-> Lex(<<"var", "x", ":", "int", "=", "a", "+", "b", "*", "c", ";">>),
     differences |-> Lex(<<"var", "x", ":", "int", "=", "a", "-", "b", "-", "c", ";">>),
     varOne      |-> Lex(<<"var", "x", ":", "int", "=", "1", ";">>),
     noInitializer |-> Lex(<<"var", "x", ":", "int", "=", ";">>),
     noColon     |-> Lex(<<"var", "x", "int", "=", "1", ";">>),
     agent       |-> Lex(<<"agent", "A", "{", "goal", ":", "\"g\"", ";",
                           "capabilities", ":", "[", "\"X\"", "]", ";",
                           "behavior", "{", "on", "\"e\"", "{",
                           "var", "x", ":", "int", "=", "1", ";", "}", "}", "}">>),
     agentBadParts |-> Lex(<<"agent", "A", "{", "goal", "\"g\"", ";",
                             "behavior", "{", "on", "{", "}", "}", "}">>),
     agentNoName |-> Lex(<<"agent", "{", "}">>),
     agentFunction |-> Lex(<<"agent", "A", "{", "function", "f", "(", "a", ",", "b",
                             ")", ":", "int", "{", "}", "}">>),
     agentNoInitializer |-> Lex(<<"agent", "A", "{", "behavior", "{", "on", "\"e\"", "{",
                                  "var", "x", ":", "int", "=", ";", "}", "}", "}">>)]

Sources == {Source[k] : k \in DOMAIN Source}

TokenAlphabet ==
    {T(w) : w \in {"var", "agent", "x", ":", "int", "=", ";", "{", "}", "behavior"}}

\* the token streams parsed: the sources above, and every stream of at most
\* MaxTokens tokens of the alphabet
TokenStreams == Sources \cup UNION {[1..n -> TokenAlphabet] : n \in 0..MaxTokens}

ParserValue == [nread |-> nread, cur |-> curToken, peek |-> peekToken]

SetParser(p) ==
    /\ nread' = p.nread /\ curToken' = p.cur /\ peekToken' = p.peek

\* p := parser.New(l); program := &Program{}: ParseProgram is at its loop
InitParser ==
    /\ IdleLexer /\ IdlePipeline /\ IdleSemantic /\ IdleVM /\ IdleRuns
    /\ tokens \in TokenStreams
    /\ LET p == NewParser(tokens)
       IN  nread = p.nread /\ curToken = p.cur /\ peekToken = p.peek
    /\ parsed = <<>>
    /\ pstage = "loop"
    /\ perrors = <<>>

ParserFrame == UNCHANGED <<replLines, firstRun, lexVars, tokens, perrors, stage, program, semVars, genVars, vmVars>>

\* one iteration of the loop of ParseProgram
ParseProgramStep ==
    /\ pstage = "loop"
    /\ curToken.Type # "EOF"
    /\ LET r == parseStatement(tokens, ParserValue)
       IN  IF r.hang
           THEN /\ SetParser(r.p)
                /\ pstage' = "expression"
                /\ UNCHANGED parsed
           ELSE /\ SetParser(nextToken(tokens, r.p))
                /\ parsed' = IF r.node # NilNode THEN Append(parsed, r.node) ELSE parsed
                /\ UNCHANGED pstage
    /\ ParserFrame

\* the loop of ParseProgram ends: return program
ParseProgramReturn ==
    /\ pstage = "loop"
    /\ curToken.Type = "EOF"
    /\ pstage' = "returned"
    /\ UNCHANGED <<nread, curToken, peekToken, parsed>>
    /\ ParserFrame

\* one iteration of the outer loop of parseExpression with curToken a
\* SEMICOLON: the inner loop's condition is false and nothing changes
ParseExpressionLoop ==
    /\ pstage = "expression"
    /\ curToken.Type # "RBRACE"
    /\ ~(curToken.Type # "SEMICOLON")
    /\ UNCHANGED <<nread, curToken, peekToken, parsed, pstage>>
    /\ ParserFrame

NextParser == ParseProgramStep \/ ParseProgramReturn \/ ParseExpressionLoop

SpecParser == InitParser /\ [][NextParser]_vars

-----------------------------------------------------------------------------
(***************************************************************************)
(* PROPERTIES                                                              *)
(***************************************************************************)

\* Analyse has returned (pipeline)
Analysed == stage \in {"analysed", "exit1", "running", "crashed", "done"}

\* the pipeline has come to its end: os.Exit(1), a Go panic, or VM.Run returned
Ended == stage \in {"exit1", "crashed", "done"}

\* the statements of the bodies an agent's code is generated from, in the
\* order generateAgentStatement emits them
RECURSIVE Flatten(_)
Flatten(ss) == IF ss = <<>> THEN <<>> ELSE Head(ss) \o Flatten(Tail(ss))

HandlersOf(agent) == Flatten(agent.behaviors)
AgentBodies(agent) ==
    Flatten([i \in 1..Len(HandlersOf(agent)) |-> HandlersOf(agent)[i].body])
    \o Flatten([i \in 1..Len(agent.functions) |-> agent.functions[i].body])

\* The operand stack depth the stack discipline of section 8 (5) prescribes,
\* counted over the statements in execution order: an expression statement
\* leaves one value unless it is a call of a builtin, whose arguments the
\* builtin consumes; a return leaves its value and halts; a var declaration
\* and the construction of an agent leave nothing.
RECURSIVE ExpectedAfter(_, _, _)
ExpectedAfter(acc, stmts, i) ==
    IF i > Len(stmts) \/ acc.halted THEN acc
    ELSE LET st == stmts[i]
             next ==
               CASE st.kind = "expr" ->
                      IF st.expr.kind = "call" /\ st.expr.fn \in {"log", "syscall"}
                      THEN acc ELSE [acc EXCEPT !.n = @ + 1]
                 [] st.kind = "return" -> [n |-> acc.n + 1, halted |-> TRUE]
                 [] st.kind = "agent"  -> ExpectedAfter(acc, AgentBodies(st), 1)
                 [] OTHER -> acc
         IN  ExpectedAfter(next, stmts, i + 1)

ExpectedDepth(prog) == ExpectedAfter([n |-> 0, halted |-> FALSE], prog, 1).n

NoCallInstruction == \A i \in 1..Len(instructions) : instructions[i].Opcode # "CALL"

\* var x: int = 42 * 7;
ProgramC1 == <<VarStmt("x", "int", Infix("*", IntLit(42), IntLit(7)), 1)>>

\* C1: for every program that contains no calls, when VM.Run has returned the
\* call stack is empty and the operand stack holds exactly the values the
\* expression statements produced and no builtin consumed; the program
\* `var x: int = 42 * 7;` runs to the end and leaves the operand stack empty.
C1_StackDiscipline ==
    /\ (stage = "done" /\ NoCallInstruction) =>
          (callStack = <<>> /\ Len(stack) = ExpectedDepth(program))
    /\ (program = ProgramC1 /\ Ended) => (stage = "done" /\ stack = <<>>)

\* function f(a: int): int { return a * 2; }   f(3);
ProgramC2 ==
    <<Function("f", <<Arg("a", "int")>>, "int",
               <<ReturnStmt(Infix("*", Ident("a"), IntLit(2)), 1)>>, 1),
      ExprStmt(Call("f", <<IntLit(3)>>), 2)>>

\* the last n instructions of the generated list
LastInstructions(n) ==
    IF Len(instructions) < n THEN <<>>
    ELSE SubSeq(instructions, Len(instructions) - n + 1, Len(instructions))

\* C2: for `function f(a: int): int { return a * 2; }` followed by the
\* expression statement `f(3)`, the pipeline runs to the end, the call is
\* compiled to PUSH(3), CALL(fAddr), HALT and after the run the operand stack
\* contains 6.
C2_CallReturnsDouble ==
    (program = ProgramC2 /\ Ended) =>
        /\ stage = "done"
        /\ Len(instructions) >= 3
        /\ LET l == LastInstructions(3)
           IN  /\ l[1] = Instruction("PUSH", 3)
               /\ l[2].Opcode = "CALL"
               /\ l[3].Opcode = "HALT"
        /\ stack = <<IntV(6)>>

\* log("hi");
ProgramC3 == <<ExprStmt(Call("log", <<StrLit("hi")>>), 1)>>

\* C3: PUSH_STRING(i) pushes the literal the code generator interned at index
\* i: every string on the operand stack or logged by LOG is a string literal
\* of the program, and the run of the code for `log("hi");` logs "hi".
C3_StringPoolResolved ==
    /\ (program = ProgramC3 /\ Ended) => (stage = "done" /\ logged = <<StrV("hi")>>)
    /\ (program = ProgramC3 /\ stage = "running") =>
          \A i \in 1..Len(stack) : stack[i].t = "string" => stack[i].s = "hi"

\* C4: whenever Analyse has returned, with nil or with an error, the current
\* scope is the global scope: the scope chain has depth one.
C4_ScopeDepthOne == Analysed => Len(scopes) = 1

\* the scopes of chain sc that bind variable name, function name
VariableBinders(sc, name) == {i \in 1..Len(sc) : name \in DOMAIN sc[i].variables}
FunctionBinders(sc, name) == {i \in 1..Len(sc) : name \in DOMAIN sc[i].functions}
Innermost(S) == CHOOSE i \in S : \A j \in S : j <= i

ValueTypes == {"int", "float", "string", "bool", "agent", "void"}

\* the static type typing rule 6 of section 4.3 gives expression e under the
\* scope chain sc; "none" when the rules give it no type
RECURSIVE SpecType(_, _)
SpecType(sc, e) ==
    CASE e.kind = "int"    -> "int"
      [] e.kind = "float"  -> "float"
      [] e.kind = "string" -> "string"
      [] e.kind = "bool"   -> "bool"
      [] e.kind = "ident"  ->
            IF VariableBinders(sc, e.name) = {} THEN "none"
            ELSE sc[Innermost(VariableBinders(sc, e.name))].variables[e.name]
      [] e.kind = "infix"  ->
            IF SpecType(sc, e.left) = SpecType(sc, e.right)
            THEN SpecType(sc, e.left) ELSE "none"
      [] e.kind = "call"   ->
            IF FunctionBinders(sc, e.fn) = {} THEN "none"
            ELSE sc[Innermost(FunctionBinders(sc, e.fn))].functions[e.fn].ReturnType
      [] OTHER -> "none"

\* the number of nodes of kind k in an expression, in statements
RECURSIVE CountInExpr(_, _)
RECURSIVE SumOver(_, _, _)
CountInExpr(k, e) ==
    (IF e.kind = k THEN 1 ELSE 0) +
    (CASE e.kind = "infix" -> CountInExpr(k, e.left) + CountInExpr(k, e.right)
       [] e.kind = "call"  -> SumOver(k, e.args, 1)
       [] OTHER -> 0)
SumOver(k, es, i) ==
    IF i > Len(es) THEN 0 ELSE CountInExpr(k, es[i]) + SumOver(k, es, i + 1)

RECURSIVE CountInStmts(_, _, _)
CountInStmts(k, stmts, i) ==
    IF i > Len(stmts) THEN 0
    ELSE LET st == stmts[i]
             n  == CASE st.kind = "var"      -> CountInExpr(k, st.value)
                     [] st.kind = "expr"     -> CountInExpr(k, st.expr)
                     [] st.kind = "return"   -> CountInExpr(k, st.value)
                     [] st.kind = "function" -> CountInStmts(k, st.body, 1)
                     [] st.kind = "agent"    ->
                          CountInStmts(k, Flatten([j \in 1..Len(HandlersOf(st)) |->
                                                     HandlersOf(st)[j].body]), 1)
                          + CountInStmts(k, st.functions, 1)
                     [] OTHER -> 0
         IN  n + CountInStmts(k, stmts, i + 1)

LoggedOfKind(k) == {i \in 1..Len(semLog) : semLog[i].node.kind = k}

Accepted == Analysed /\ semErr = Nil

\* var x: int = 1 + "a";
ProgramC5 == <<VarStmt("x", "int", Infix("+", IntLit(1), StrLit("a")), 1)>>

\* C5: Analyse rejects every program that has an Infix expression whose
\* operands have different types: in an accepted program every Infix
\* expression was analysed and its two operands have the same type, and
\* `var x: int = 1 + "a";` is rejected.
C5_InfixOperandsAgree ==
    /\ Accepted =>
          /\ Cardinality(LoggedOfKind("infix")) = CountInStmts("infix", program, 1)
          /\ \A i \in LoggedOfKind("infix") :
                LET e == semLog[i].node  sc == semLog[i].scopes
                IN  /\ SpecType(sc, e.left) \in ValueTypes
                    /\ SpecType(sc, e.left) = SpecType(sc, e.right)
    /\ (program = ProgramC5 /\ Analysed) => semErr # Nil

\* var x: int = y;
ProgramC7 == <<VarStmt("x", "int", Ident("y"), 1)>>

\* C7: `var x: int = y;` with y undeclared is rejected with an error that
\* carries line 1 and names y, and every error Analyse returns carries the
\* 1-based line of a statement of the program.
C7_ErrorCarriesLineAndName ==
    /\ (Analysed /\ semErr # Nil) =>
          /\ semErr.lines # <<>>
          /\ \A i \in 1..Len(semErr.lines) : semErr.lines[i] \in 1..Len(program)
    /\ (program = ProgramC7 /\ Analysed) =>
          /\ semErr # Nil
          /\ semErr.lines # <<>> /\ semErr.lines[1] = 1
          /\ "y" \in semErr.names

\* the statements of a program that are a call of fn with n arguments whose
\* i-th argument is a literal of kind k
HasCallStatement(prog, fn, n, i, k) ==
    \E j \in 1..Len(prog) :
        /\ prog[j].kind = "expr" /\ prog[j].expr.kind = "call"
        /\ prog[j].expr.fn = fn /\ Len(prog[j].expr.args) = n
        /\ i <= n => prog[j].expr.args[i].kind = k

\* C6: in a program Analyse accepts every Call was analysed, names a function
\* declared in an enclosing scope, has as many arguments as the signature has
\* parameters, and each argument has the type of its parameter; log is
\* (string) -> void and syscall is (string, string) -> void, so programs with
\* the statement log(1) or syscall("a") are rejected.
C6_CallsMatchSignature ==
    /\ Accepted =>
          /\ Cardinality(LoggedOfKind("call")) = CountInStmts("call", program, 1)
          /\ \A i \in LoggedOfKind("call") :
                LET e  == semLog[i].node
                    sc == semLog[i].scopes
                    bs == FunctionBinders(sc, e.fn)
                IN  /\ bs # {}
                    /\ LET sig == sc[Innermost(bs)].functions[e.fn]
                       IN  /\ Len(e.args) = Len(sig.Arguments)
                           /\ \A k \in 1..Len(e.args) :
                                 SpecType(sc, e.args[k]) = sig.Arguments[k]
                           /\ e.fn = "log" =>
                                 sig = FunctionSignature(<<"string">>, "void")
                           /\ e.fn = "syscall" =>
                                 sig = FunctionSignature(<<"string", "string">>, "void")
    /\ (Analysed /\ HasCallStatement(program, "log", 1, 1, "int")) => semErr # Nil
    /\ (Analysed /\ HasCallStatement(program, "syscall", 1, 1, "string")) => semErr # Nil

\* an accepted program in which a call of the declared function s and, with
\* that call as its argument, a call of the builtin log were analysed
C6_Witness ==
    /\ stage = "analysed" /\ semErr = Nil
    /\ \E i \in LoggedOfKind("call") : semLog[i].node.fn = "s"
    /\ \E i \in LoggedOfKind("call") :
          /\ semLog[i].node.fn = "log"
          /\ semLog[i].node.args[1].kind = "call"

\* C8: DeclareVariable (DeclareFunction) of a name the current scope already
\* binds returns the "already declared" error and changes no binding; of a
\* name the current scope does not bind it succeeds, whatever the enclosing
\* scopes bind, and binds the name in the current scope only; Analyse rejects
\* two agents named A with "variable already declared in this scope".
C8_RedeclarationRejected ==
    /\ [][(stage = "symtab" /\ lastOp'.op = "DeclareVariable") =>
            LET n == lastOp'.name  d == Len(scopes)
            IN  IF n \in DOMAIN scopes[d].variables
                THEN /\ semErr'.msg = "variable already declared in this scope"
                     /\ scopes' = scopes
                ELSE /\ semErr' = Nil
                     /\ Len(scopes') = d
                     /\ scopes'[d].variables =
                           MapPut(scopes[d].variables, n, lastOp'.type)
                     /\ scopes'[d].functions = scopes[d].functions
                     /\ \A i \in 1..(d - 1) : scopes'[i] = scopes[i]]_vars
    /\ [][(stage = "symtab" /\ lastOp'.op = "DeclareFunction") =>
            LET n == lastOp'.name  d == Len(scopes)
            IN  IF n \in DOMAIN scopes[d].functions
                THEN /\ semErr'.msg = "function already declared in this scope"
                     /\ scopes' = scopes
                ELSE /\ semErr' = Nil
                     /\ Len(scopes') = d
                     /\ DOMAIN scopes'[d].functions = DOMAIN scopes[d].functions \cup {n}
                     /\ scopes'[d].variables = scopes[d].variables
                     /\ \A i \in 1..(d - 1) : scopes'[i] = scopes[i]]_vars
    /\ [](lastOp.op = "Analyse" /\ lastOp.prog = TwoAgentsProgram =>
            /\ semErr.msg = "variable already declared in this scope"
            /\ scopes[1].variables = [x \in {"A"} |-> "agent"])

\* a name declared in the global scope and again, with success, in a nested
\* scope, whose third declaration in the nested scope has just been refused
C8_Witness ==
    /\ lastOp.op = "DeclareVariable"
    /\ semErr = ErrVariableDeclared
    /\ Len(scopes) = 2
    /\ lastOp.name \in DOMAIN scopes[1].variables
    /\ lastOp.name \in DOMAIN scopes[2].variables
    /\ scopes[1].variables[lastOp.name] # scopes[2].variables[lastOp.name]

\* the type name resolves to in chain sc: that of the innermost scope binding it
Resolves(sc, name) ==
    IF VariableBinders(sc, name) = {} THEN "none"
    ELSE sc[Innermost(VariableBinders(sc, name))].variables[name]

\* C9: GetVariableType returns the type of the innermost scope that binds the
\* name, and "variable not declared" when none does; pushScope adds an empty
\* scope, so every outer binding stays visible until it is shadowed; after
\* popScope each name resolves as it did in the enclosing scopes alone;
\* a function's argument shadows a global of the same name inside the body
\* only, and its name is not resolvable after the function.
C9_InnermostBindingWins ==
    /\ [](stage = "symtab" /\ lastOp.op = "GetVariableType" =>
            IF VariableBinders(scopes, lastOp.name) = {}
            THEN semErr.msg = "variable not declared"
            ELSE semErr = Nil /\ lastOp.result = Resolves(scopes, lastOp.name))
    /\ [][(stage = "symtab" /\ lastOp'.op = "pushScope") =>
            /\ Len(scopes') = Len(scopes) + 1
            /\ \A n \in Names : Resolves(scopes', n) = Resolves(scopes, n)]_vars
    /\ [][(stage' = "symtab" /\ lastOp'.op = "popScope") =>
            /\ Len(scopes') = Len(scopes) - 1
            /\ \A n \in Names :
                  Resolves(scopes', n) =
                      Resolves(SubSeq(scopes, 1, Len(scopes) - 1), n)]_vars
    /\ [](lastOp.op = "Analyse" /\ lastOp.prog = ShadowProgram =>
            /\ semErr = Nil
            /\ Resolves(scopes, "x") = "int")
    /\ [](lastOp.op = "Analyse" /\ lastOp.prog = OuterAgainProgram =>
            /\ semErr.msg = "type mismatch for argument %d: expected %s but got %s"
            /\ semErr.lines = <<3>>)
    /\ [](lastOp.op = "Analyse" /\ lastOp.prog = PoppedNameProgram =>
            semErr.msg = "variable not declared")

\* a lookup of a name that the global scope and the nested current scope bind
\* to different types has returned the nested scope's type
C9_Witness ==
    /\ stage = "symtab"
    /\ lastOp.op = "GetVariableType"
    /\ Len(scopes) = 2
    /\ lastOp.name \in DOMAIN scopes[1].variables
    /\ lastOp.name \in DOMAIN scopes[2].variables
    /\ scopes[1].variables[lastOp.name] # scopes[2].variables[lastOp.name]
    /\ lastOp.result = scopes[2].variables[lastOp.name]

\* C10: once NextToken has returned EOF every later call returns EOF, for
\* every input, those with a NUL byte before their end included.
C10_EOFIsSticky == [][tok.Type = "EOF" => tok'.Type = "EOF"]_vars

\* the token types whose literal is a piece of the input
PunctuationTypes ==
    {"LBRACE", "RBRACE", "LPAREN", "RPAREN", "LBRACKET", "RBRACKET", "COLON",
     "SEMICOLON", "COMMA", "PLUS", "MINUS", "ASTERISK", "SLASH", "ASSIGN", "GT",
     "LT", "AND", "OR"}
KeywordTypes ==
    {"AGENT", "GOAL", "CAPABILITIES", "BEHAVIOR", "FUNCTION", "ON", "VAR",
     "RETURN"}
WordTypes == PunctuationTypes \cup KeywordTypes \cup {"IDENT", "INT", "FLOAT", "STRING", "BOOL"}

\* C11: the token NextToken returned has 0 <= Loc <= len(input); the input
\* from Loc on reads Literal when the token is punctuation, an operator, a
\* keyword, an identifier or a number; for a string literal Loc is the offset
\* of its opening quote and the input after the quote reads Literal.
C11_LocIsTokenStart ==
    tok.Type # "NONE" =>
        /\ 0 <= tok.Loc /\ tok.Loc <= Len(input)
        /\ tok.Type \in WordTypes \ {"STRING"} =>
              /\ tok.Loc + Len(tok.Literal) <= Len(input)
              /\ slice(input, tok.Loc, tok.Loc + Len(tok.Literal)) = tok.Literal
        /\ tok.Type = "STRING" =>
              /\ tok.Loc + 1 + Len(tok.Literal) <= Len(input)
              /\ input[tok.Loc + 1] = "\""
              /\ slice(input, tok.Loc + 1, tok.Loc + 1 + Len(tok.Literal)) = tok.Literal

\* the length of the run of digits of in from index i (1-based) on
RECURSIVE DigitRun(_, _)
DigitRun(in, i) ==
    IF i > Len(in) \/ in[i] \notin Digits THEN 0 ELSE 1 + DigitRun(in, i + 1)

\* the input begins with digits '.' digits, not followed by another '.'
BeginsWithFloat ==
    LET d == DigitRun(input, 1)
        e == DigitRun(input, d + 2)
    IN  /\ d >= 1 /\ d + 1 <= Len(input) /\ input[d + 1] = "."
        /\ e >= 1
        /\ d + 1 + e < Len(input) => input[d + 2 + e] # "."

FloatNumeral ==
    LET d == DigitRun(input, 1) IN SubSeq(input, 1, d + 1 + DigitRun(input, d + 2))

\* the input begins with digits not followed by '.'
BeginsWithInt ==
    LET d == DigitRun(input, 1)
    IN  d >= 1 /\ (d < Len(input) => input[d + 1] # ".")

\* C12: the first token of an input that begins with digits '.' digits is one
\* FLOAT token whose literal is the whole numeral, whatever the length of the
\* integer part; of an input that begins with digits not followed by '.',
\* one INT token whose literal is the digits.
C12_NumeralIsOneToken ==
    calls = 1 =>
        /\ BeginsWithFloat => (tok.Type = "FLOAT" /\ tok.Literal = FloatNumeral)
        /\ BeginsWithInt =>
              (tok.Type = "INT" /\ tok.Literal = SubSeq(input, 1, DigitRun(input, 1)))

\* the parser's ordered list of diagnostics: Parser has no such field
\* (parser.go:27-32) and no production records anything
ParserErrors == <<>>

\* the VarStatement the grammar gives `var x: int = <e>;`
VarX(e) == [kind |-> "var", name |-> "x", type |-> "int", value |-> e]

\* C13: when ParseProgram has returned, the Program of `var x: int = a + b * c;`
\* is the one var declaration whose value is Infix(+, a, Infix(*, b, c)), and
\* the Program of `var x: int = a - b - c;` the one whose value is
\* Infix(-, Infix(-, a, b), c).
C13_PrecedenceAndAssociativity ==
    pstage = "returned" =>
        /\ tokens = Source.sumProduct =>
              parsed = <<VarX(Infix("+", Ident("a"), Infix("*", Ident("b"), Ident("c"))))>>
        /\ tokens = Source.differences =>
              parsed = <<VarX(Infix("-", Infix("-", Ident("a"), Ident("b")), Ident("c")))>>

\* a nil where a node of an agent's behaviors, its functions or a behavior's
\* handlers should be
HasNilSubNode(st) ==
    /\ st.kind = "agent"
    /\ \/ \E i \in 1..Len(st.behaviors) : st.behaviors[i] = NilNode
       \/ \E i \in 1..Len(st.functions) : st.functions[i] = NilNode
       \/ \E i \in 1..Len(st.behaviors) :
             /\ st.behaviors[i] # NilNode
             /\ \E j \in 1..Len(st.behaviors[i].handlers) :
                   st.behaviors[i].handlers[j] = NilNode

\* C14: when ParseProgram has returned with an empty error list, the
\* statement the first token (var, agent) begins is in the Program, and no
\* statement of the Program has a nil sub-node: a production that failed
\* left a diagnostic.
C14_FailureLeavesDiagnostic ==
    (pstage = "returned" /\ ParserErrors = <<>>) =>
        /\ (tokens # <<>> /\ tokens[1].Type \in {"VAR", "AGENT"}) => parsed # <<>>
        /\ \A i \in 1..Len(parsed) : ~HasNilSubNode(parsed[i])

\* C15: ParseProgram returns on every token stream, `var x: int = ;`
\* included: it is never inside a loop that runs again without having
\* consumed a token or changed its condition, as the outer loop of
\* parseExpression does while curToken is neither an RBRACE (the outer loop
\* goes on) nor anything but a SEMICOLON (the inner loop, which returns, is
\* skipped).
C15_ParseProgramTerminates ==
    pstage = "expression" => (curToken.Type = "RBRACE" \/ curToken.Type # "SEMICOLON")


\* the opcodes of agent construction, and those whose operand is the agent
AgentOpcodes ==
    {"CREATE_AGENT", "SET_AGENT_GOAL", "ADD_AGENT_CAPABILITY",
     "CREATE_EVENT_HANDLER", "SET_EVENT_HANDLER_EVENT", "ADD_AGENT_EVENT_HANDLER",
     "CREATE_FUNCTION", "ADD_FUNCTION_ARGUMENT", "ADD_AGENT_FUNCTION"}

AgentIndexed ==
    {"CREATE_AGENT", "SET_AGENT_GOAL", "ADD_AGENT_CAPABILITY",
     "ADD_AGENT_EVENT_HANDLER", "ADD_AGENT_FUNCTION"}

IsAgentInstruction(ins) == ins.Opcode \in AgentOpcodes

Opcodes(is) == [i \in 1..Len(is) |-> is[i].Opcode]

Repeat(n, ops) == Flatten([i \in 1..n |-> ops])

\* the construction opcodes section 7 prescribes for one agent declaration:
\* creation, goal, capabilities, behaviors, functions
AgentSkeleton(agent) ==
    <<"CREATE_AGENT">>
    \o (IF Len(agent.goal) = 0 THEN <<>> ELSE <<"SET_AGENT_GOAL">>)
    \o Repeat(Len(agent.caps), <<"ADD_AGENT_CAPABILITY">>)
    \o Repeat(Len(HandlersOf(agent)),
              <<"CREATE_EVENT_HANDLER", "SET_EVENT_HANDLER_EVENT",
                "ADD_AGENT_EVENT_HANDLER">>)
    \o Flatten([i \in 1..Len(agent.functions) |->
                  <<"CREATE_FUNCTION">>
                  \o Repeat(Len(agent.functions[i].args), <<"ADD_FUNCTION_ARGUMENT">>)
                  \o <<"ADD_AGENT_FUNCTION">>])

\* the instructions that open an agent: creation, goal and capabilities with
\* the string pushed before each
AgentPrelude(agent) ==
    <<"CREATE_AGENT">>
    \o (IF Len(agent.goal) = 0 THEN <<>> ELSE <<"PUSH_STRING", "SET_AGENT_GOAL">>)
    \o Repeat(Len(agent.caps), <<"PUSH_STRING", "ADD_AGENT_CAPABILITY">>)

ProgramSkeleton ==
    Flatten([i \in 1..Len(program) |->
               IF program[i].kind = "agent" THEN AgentSkeleton(program[i]) ELSE <<>>])

\* the index of the agent under construction at instruction i
RECURSIVE AgentUnderConstruction(_)
AgentUnderConstruction(i) ==
    IF i = 0 THEN -1
    ELSE IF instructions[i].Opcode = "CREATE_AGENT" THEN instructions[i].Operand
    ELSE AgentUnderConstruction(i - 1)

\* agent A { goal: "g"; capabilities: ["X"]; behavior { on "e" { log("hi"); } } }
ProgramC16 ==
    <<AgentStmt("A", <<"g">>, <<"X">>,
                << <<EventHandler("e", <<ExprStmt(Call("log", <<StrLit("hi")>>), 1)>>)>> >>,
                <<>>, 1)>>

C16_WitnessTwoAgents ==
    /\ genStatus = "ok" /\ Len(program) = 2
    /\ program[1].kind = "agent" /\ program[2].kind = "agent"
    /\ program[1].name # program[2].name
    /\ program[2].functions # <<>>


\* the variables an expression reads, left to right
RECURSIVE RefsOf(_)
RefsOf(e) ==
    CASE e.kind = "ident" -> <<e.name>>
      [] e.kind = "infix" -> RefsOf(e.left) \o RefsOf(e.right)
      [] e.kind = "call"  -> Flatten([i \in 1..Len(e.args) |-> RefsOf(e.args[i])])
      [] OTHER -> <<>>

LocalAccess(o, n) == [op |-> o, name |-> n]

Reads(e) == [i \in 1..Len(RefsOf(e)) |-> LocalAccess("GET_LOCAL", RefsOf(e)[i])]

\* the accesses to locals the top-level statements make, in program order
AccessesOf(st) ==
    CASE st.kind = "var"    -> Append(Reads(st.value), LocalAccess("SET_LOCAL", st.name))
      [] st.kind = "expr"   -> Reads(st.expr)
      [] st.kind = "return" -> Reads(st.value)
      [] OTHER -> <<>>

ProgramAccesses == Flatten([i \in 1..Len(program) |-> AccessesOf(program[i])])

\* the slot section 6 gives a variable: the number of different variables
\* declared before its first declaration
FirstDeclared(acc, name) ==
    CHOOSE i \in 1..Len(acc) :
        /\ acc[i] = LocalAccess("SET_LOCAL", name)
        /\ \A j \in 1..(i - 1) : acc[j] # acc[i]

slotForName(acc, name) ==
    Cardinality({acc[j].name : j \in {k \in 1..(FirstDeclared(acc, name) - 1) :
                                         acc[k].op = "SET_LOCAL"}})

IsLocalInstruction(ins) == ins.Opcode \in {"SET_LOCAL", "GET_LOCAL"}

OnlyVariablesAndExpressions ==
    \A i \in 1..Len(program) : program[i].kind \in {"var", "expr", "return"}

\* var y: string = "a";
ProgramC17 == <<VarStmt("y", "string", StrLit("a"), 1)>>

\* C17: in the code generated for a program of variable declarations and
\* expressions, the accesses to locals are, in program order, the reads of an
\* initializer followed by the SET_LOCAL of the variable declared, each with
\* the slot of its name; slots are 0, 1, 2, ... in the order the variables
\* are first declared, so that different names have different slots; a
\* declaration alone ends in SET_LOCAL(0), HALT; and `var x: int = 42 * 7;`
\* yields PUSH(42), PUSH(7), MUL, SET_LOCAL(0), HALT.
C17_SlotsInDeclarationOrder ==
    (genStatus = "ok" /\ OnlyVariablesAndExpressions) =>
        LET acc == ProgramAccesses
            loc == SelectSeq(instructions, IsLocalInstruction)
        IN  /\ Len(loc) = Len(acc)
            /\ \A i \in 1..Len(acc) :
                  loc[i] = Instruction(acc[i].op, slotForName(acc, acc[i].name))
            /\ (Len(program) = 1 /\ program[1].kind = "var") =>
                  LastInstructions(2) = <<Instruction("SET_LOCAL", 0), Instruction("HALT", 0)>>
            /\ program = ProgramC1 =>
                  instructions = <<Instruction("PUSH", 42), Instruction("PUSH", 7),
                                   Instruction("MUL", 0), Instruction("SET_LOCAL", 0),
                                   Instruction("HALT", 0)>>


IsNumber(v) == v.t \in {"int", "float"}

\* a number as a fraction, an int widened
Numerator(v)   == IF v.t = "int" THEN v.i ELSE v.n
Denominator(v) == IF v.t = "int" THEN 1 ELSE v.d

IsZero(v) == IsNumber(v) /\ Numerator(v) = 0

\* q is l / r on integers, the quotient truncated toward zero
IsIntQuotient(l, r, q) ==
    LET rem == l - q * r
    IN  /\ Abs(rem) < Abs(r)
        /\ rem = 0 \/ (rem < 0) = (l < 0)

\* z is l op r on 64-bit integers far from overflow
IsIntResult(opcode, l, r, z) ==
    CASE opcode = "ADD" -> z = l + r
      [] opcode = "SUB" -> z = l - r
      [] opcode = "MUL" -> z = l * r
      [] opcode = "DIV" -> IsIntQuotient(l, r, z)

\* the fraction zn/zd is x op y for the numbers x and y
IsFloatResult(opcode, x, y, zn, zd) ==
    LET xn == Numerator(x)
        xd == Denominator(x)
        yn == Numerator(y)
        yd == Denominator(y)
    IN  CASE opcode = "ADD" -> zn * xd * yd = (xn * yd + yn * xd) * zd
          [] opcode = "SUB" -> zn * xd * yd = (xn * yd - yn * xd) * zd
          [] opcode = "MUL" -> zn * xd * yd = xn * yn * zd
          [] opcode = "DIV" -> zn * xd * yn = xn * yd * zd

OpcodeOf(op) ==
    CASE op = "+" -> "ADD" [] op = "-" -> "SUB" [] op = "*" -> "MUL" [] op = "/" -> "DIV"

\* the VM is about to execute an arithmetic instruction on two operands
AtArithmetic ==
    /\ stage = "running" /\ running /\ pc < Len(instructions)
    /\ instructions[pc + 1].Opcode \in ArithOpcodes
    /\ Len(stack) >= 2

\* C18: an arithmetic instruction takes the top of the stack for its right
\* operand and the value under it for its left operand and replaces the two
\* by left op right: an int for two ints, a float equal to the result on the
\* widened operands when one or both are floats; on any other pair of types
\* the VM ends with a fault and pushes nothing (a zero divisor aside); and
\* when VM.Run returns from the code of `l op r;` with integer literals l and
\* r the stack holds the single int l op r.
C18_ArithmeticOnOperands ==
    [][ /\ AtArithmetic =>
            LET opcode == instructions[pc + 1].Opcode
                l      == stack[Len(stack) - 1]
                r      == stack[Len(stack)]
                rest   == SubSeq(stack, 1, Len(stack) - 2)
            IN  IF opcode = "DIV" /\ IsNumber(l) /\ IsZero(r) THEN TRUE
                ELSE IF IsNumber(l) /\ IsNumber(r)
                THEN /\ vmFault' = "none"
                     /\ Len(stack') = Len(rest) + 1
                     /\ SubSeq(stack', 1, Len(rest)) = rest
                     /\ LET z == stack'[Len(stack')]
                        IN  IF l.t = "int" /\ r.t = "int"
                            THEN z.t = "int" /\ IsIntResult(opcode, l.i, r.i, z.i)
                            ELSE z.t = "float" /\ IsFloatResult(opcode, l, r, z.n, z.d)
                ELSE /\ vmFault' # "none" /\ stage' = "crashed"
                     /\ stack' = rest
        /\ (stage = "running" /\ stage' = "done") =>
            \A op \in Operators, l, r \in IntOperands :
                (program = BinaryProgram(op, l, r) /\ ~(op = "/" /\ r = 0)) =>
                    /\ Len(stack') = 1 /\ stack'[1].t = "int"
                    /\ IsIntResult(OpcodeOf(op), l, r, stack'[1].i)
      ]_vars

\* 7 - 0.5 has been computed: the float 13/2 is on the stack
C18_Witness ==
    /\ program = <<>> /\ instructions = <<Instruction("SUB", 0)>> /\ pc = 1
    /\ stack = <<FloatV(13, 2)>>

\* VM.Run has returned from the code of `-3 / 2;` with -1 on the stack
C18_WitnessCompiled ==
    /\ stage = "done" /\ program = BinaryProgram("/", -3, 2) /\ stack = <<IntV(-1)>>


\* C19: a DIV instruction whose divisor is zero, int or float, and whose
\* dividend is a number ends the VM with the fault "Division by zero": nothing
\* is pushed in place of the two operands, and once the VM has ended with a
\* fault no instruction is executed; a program that executes
\* `var x: int = 1 / 0;` is not rejected by the analysis or the code
\* generator, and its run neither returns normally nor ends with another fault.
C19_DivisionByZeroIsFatal ==
    [][ /\ (AtArithmetic /\ instructions[pc + 1].Opcode = "DIV"
            /\ IsNumber(stack[Len(stack) - 1]) /\ IsZero(stack[Len(stack)])) =>
               /\ vmFault' = "Division by zero"
               /\ stage' = "crashed"
               /\ stack' = SubSeq(stack, 1, Len(stack) - 2)
               /\ pc' = pc
        /\ stage # "crashed"
        /\ program \in DivisionPrograms =>
               /\ stage' \notin {"exit1", "done"}
               /\ stage' = "crashed" =>
                     (genStatus' = "ok" /\ vmFault' = "Division by zero")
      ]_vars

\* the run of `2 * 7; var x: int = 1 / 0;` has ended at the division
C19_Witness ==
    /\ program \in DivisionPrograms /\ Len(program) = 2
    /\ stage = "crashed" /\ vmFault = "Division by zero"
    /\ stack = <<IntV(14)>>

\* 0.5 / 0.0 has ended the VM
C19_WitnessFloat ==
    /\ program = <<>> /\ instructions = <<Instruction("DIV", 0)>>
    /\ vmFault = "Division by zero" /\ stack = <<>> /\ pc = 0


HostOpcodes == {"SYSCALL", "EXEC"}

NoHostCommand == \A i \in 1..Len(instructions) : instructions[i].Opcode \notin HostOpcodes

StageOrder ==
    {<<"start", "parsed">>, <<"start", "exit1">>,
     <<"parsed", "analysed">>, <<"parsed", "exit1">>,
     <<"analysed", "running">>, <<"analysed", "crashed">>,
     <<"running", "crashed">>, <<"running", "done">>}

\* the symbol table, the generator and the VM have not been used
AnalysisNotStarted == scopes = NewSymbolTable /\ semLog = <<>> /\ semErr = Nil

GeneratorNotStarted == genStatus = "none" /\ instructions = <<>>

VMNotStarted == ~running /\ pc = 0 /\ steps = 0 /\ stack = <<>> /\ logged = <<>>

\* C21: runBuild goes through parse, analyse, generate and execute in this
\* order; with a non-empty parser error list the process exits with status 1
\* and neither the analysis nor the generator nor the VM has been started;
\* when Analyse has returned an error the process exits with status 1 and
\* neither the generator nor the VM has been started; and a stage is entered
\* only if the parser error list is empty and, after the analysis, Analyse
\* returned nil.
C21_StagesShortCircuit ==
    [][ /\ stage' # stage => <<stage, stage'>> \in StageOrder
        /\ perrors' # <<>> =>
              /\ stage' = "exit1"
              /\ AnalysisNotStarted' /\ GeneratorNotStarted' /\ VMNotStarted'
        /\ semErr' # Nil =>
              /\ stage' = "exit1"
              /\ GeneratorNotStarted' /\ VMNotStarted'
        /\ stage' \in {"parsed", "analysed", "running", "crashed", "done"} =>
              perrors' = <<>>
        /\ stage' \in {"analysed", "running", "crashed", "done"} => semErr' = Nil
        /\ stage' \in {"start", "parsed"} =>
              AnalysisNotStarted' /\ GeneratorNotStarted' /\ VMNotStarted'
        /\ stage' = "analysed" => GeneratorNotStarted' /\ VMNotStarted'
      ]_vars

\* Analyse has returned an error and the process has exited
C21_Witness == stage = "exit1" /\ perrors = <<>> /\ semErr # Nil

\* the parser reported an error and the process has exited
C21_WitnessParse == stage = "exit1" /\ perrors # <<>> /\ program # <<>>


\* VM.Run is about to execute the instruction at pc
Executing ==
    /\ stage = "running" /\ running /\ pc < Len(instructions)

CurrentOpcode == instructions[pc + 1].Opcode

CurrentOperand == instructions[pc + 1].Operand

\* CALL 2; HALT; RETURN
CallAndReturn == <<Instruction("CALL", 2), Instruction("HALT", 0), Instruction("RETURN", 0)>>

\* C22: CALL(addr) executed at pc p appends p+1 to the call stack and sets
\* pc to addr; RETURN with a non-empty call stack sets pc to the top return
\* address and removes it; every other instruction that completes adds
\* exactly one to pc and leaves the call stack alone; and in CALL 2; HALT;
\* RETURN the RETURN resumes at instruction 1, after the CALL, with the call
\* stack empty again.
C22_CallAndReturnSetPc ==
    [][ /\ (Executing /\ steps' = steps + 1) =>
            CASE CurrentOpcode = "CALL" ->
                   /\ callStack' = Append(callStack, pc + 1)
                   /\ pc' = CurrentOperand
                   /\ running'
              [] CurrentOpcode = "RETURN" /\ callStack # <<>> ->
                   /\ pc' = callStack[Len(callStack)]
                   /\ callStack' = SubSeq(callStack, 1, Len(callStack) - 1)
                   /\ running'
              [] CurrentOpcode = "RETURN" /\ callStack = <<>> ->
                   ~running' /\ callStack' = callStack
              [] OTHER ->
                   /\ callStack' = callStack
                   /\ vmFault' = "none" => pc' = pc + 1
        /\ (instructions = CallAndReturn /\ steps' = 2) =>
              (pc' = 1 /\ callStack' = <<>> /\ running')
      ]_vars

\* the RETURN of CALL 2; HALT; RETURN has been executed
C22_Witness ==
    instructions = CallAndReturn /\ steps = 2 /\ pc = 1 /\ callStack = <<>>


\* the value BoolLit false is lowered to: PUSH(0)
IsFalse(v) == v = IntV(0)

\* C23: executing JUMP(addr) sets pc to addr and leaves the VM running;
\* executing JUMP_IF_FALSE(addr) pops the condition, sets pc to addr when it
\* is false and goes on to the next instruction otherwise, the VM running
\* in both cases.
C23_JumpsAreExecuted ==
    [][ (Executing /\ steps' = steps + 1) =>
            /\ CurrentOpcode = "JUMP" =>
                  (pc' = CurrentOperand /\ running' /\ stack' = stack)
            /\ (CurrentOpcode = "JUMP_IF_FALSE" /\ stack # <<>>) =>
                  /\ running'
                  /\ stack' = SubSeq(stack, 1, Len(stack) - 1)
                  /\ pc' = IF IsFalse(stack[Len(stack)]) THEN CurrentOperand ELSE pc + 1
      ]_vars


\* the number of values an instruction takes from the operand stack
Pops(opcode) ==
    CASE opcode \in {"ADD", "SUB", "MUL", "DIV", "SYSCALL", "EXEC"} -> 2
      [] opcode \in PopOpcodes \cup {"SET_LOCAL", "LOG"} -> 1
      [] OTHER -> 0

\* the instruction at pc pops an empty operand stack
Underflows == Executing /\ Len(stack) < Pops(CurrentOpcode)

\* what slot i of the locals array holds
LocalAt(l, i) == IF i \in DOMAIN l THEN l[i] ELSE NilV

SameLocals(l1, l2) ==
    \A i \in DOMAIN l1 \cup DOMAIN l2 : LocalAt(l1, i) = LocalAt(l2, i)

IsPrefix(a, b) == Len(a) <= Len(b) /\ a = SubSeq(b, 1, Len(a))

\* C24: an instruction that pops an empty operand stack ends the run: after
\* it the VM is not running or the process has ended with a fault, every
\* slot of the locals array holds what it held before, and the operand stack
\* holds no value it did not hold before.
C24_UnderflowIsFatal ==
    [][ (Underflows /\ steps' = steps + 1) =>
            /\ ~running' \/ vmFault' # "none"
            /\ SameLocals(locals, locals')
            /\ IsPrefix(stack', stack)
      ]_vars


\* an agent-construction instruction is about to be executed
AtAgentConstruction ==
    Executing /\ CurrentOpcode \in AgentOpcodes

\* C25 as claimed: executing any of the nine agent-construction opcodes adds
\* one to pc and leaves the operand stack, the locals, the call stack and the
\* running flag as they were.
C25_AgentOpcodesChangeOnlyPc ==
    [][ (AtAgentConstruction /\ steps' = steps + 1) =>
            /\ pc' = pc + 1
            /\ stack' = stack
            /\ SameLocals(locals, locals')
            /\ callStack' = callStack
            /\ running' = running
      ]_vars

\* C25 as amended: executing CREATE_AGENT, CREATE_EVENT_HANDLER or
\* CREATE_FUNCTION changes nothing but pc, which grows by one; executing any
\* of the other six agent-construction opcodes adds one to pc, removes the
\* top of the operand stack, or clears the running flag when the stack is
\* empty, and leaves the locals and the call stack as they were.
C25_AgentOpcodesPopTheirOperand ==
    [][ (AtAgentConstruction /\ steps' = steps + 1) =>
            /\ pc' = pc + 1
            /\ SameLocals(locals, locals')
            /\ callStack' = callStack
            /\ vmFault' = "none"
            /\ IF CurrentOpcode \in {"CREATE_AGENT", "CREATE_EVENT_HANDLER", "CREATE_FUNCTION"}
               THEN stack' = stack /\ running' = running
               ELSE IF stack = <<>>
               THEN stack' = <<>> /\ ~running'
               ELSE stack' = SubSeq(stack, 1, Len(stack) - 1) /\ running' = running
      ]_vars

\* PUSH_STRING 0; SET_AGENT_GOAL 0; CREATE_AGENT 0 has been executed
C25_Witness ==
    /\ instructions = <<Instruction("PUSH_STRING", 0), Instruction("SET_AGENT_GOAL", 0),
                        Instruction("CREATE_AGENT", 0)>>
    /\ pc = 3 /\ stack = <<>> /\ running


\* a host-command instruction is about to be executed on two strings
AtHostCommand ==
    /\ Executing /\ CurrentOpcode \in HostOpcodes
    /\ Len(stack) >= 2
    /\ stack[Len(stack)].t = "string" /\ stack[Len(stack) - 1].t = "string"

\* C26: whether the host command succeeds or fails, EXEC replaces the two
\* strings on top of the operand stack by one string and SYSCALL removes
\* them, and the VM is left running with pc advanced by one.
C26_HostCommandStackEffect ==
    [][ (AtHostCommand /\ steps' = steps + 1) =>
            /\ running' /\ vmFault' = "none" /\ pc' = pc + 1
            /\ CurrentOpcode = "SYSCALL" =>
                  stack' = SubSeq(stack, 1, Len(stack) - 2)
            /\ CurrentOpcode = "EXEC" =>
                  /\ Len(stack') = Len(stack) - 1
                  /\ SubSeq(stack', 1, Len(stack) - 2) = SubSeq(stack, 1, Len(stack) - 2)
                  /\ stack'[Len(stack')].t = "string"
      ]_vars


HaltCount == Cardinality({i \in 1..Len(instructions) : instructions[i].Opcode = "HALT"})

\* C27: on an instruction list without CALL every instruction VM.Run
\* executes either adds one to pc or ends the run, so that step is called at
\* most len(instructions)+1 times and after that many calls the run has
\* ended; and the list GenerateBytecode produces for a program has HALT as
\* its last instruction and nowhere else.
C27_RunTerminatesWithoutCall ==
    [][ /\ (NoCallInstruction /\ Executing /\ steps' = steps + 1) =>
              \/ pc' = pc + 1 /\ vmFault' = "none"
              \/ ~running' /\ CurrentOpcode = "RETURN"
              \/ vmFault' # "none"
        /\ NoCallInstruction' =>
              /\ steps' <= Len(instructions') + 1
              /\ steps' = Len(instructions') + 1 => (~running' \/ vmFault' # "none")
        /\ program' # <<>> =>
              /\ instructions' # <<>>
              /\ instructions'[Len(instructions')].Opcode = "HALT"
              /\ HaltCount' = 1
      ]_vars

\* VM.Run has gone through a list of MaxCode instructions without CALL and
\* stopped at its end, in MaxCode + 1 steps
C27_Witness ==
    /\ program = <<>> /\ NoCallInstruction /\ Len(instructions) = MaxCode
    /\ steps = MaxCode + 1 /\ ~running /\ pc = MaxCode


\* syscall("ls", "-la"); and exec("ls", "-la");
HostCallProgram(fn) == <<ExprStmt(Call(fn, <<StrLit("ls"), StrLit("-la")>>), 1)>>

\* C28: when the code of `syscall("ls", "-la");` or of `exec("ls", "-la");`
\* comes to its SYSCALL or EXEC instruction, the host command spawned is
\* "ls", the first argument, and its argument fields are the pieces of
\* "-la", the second.
C28_HostCommandIsFirstArgument ==
    (AtHostCommand /\ program \in {HostCallProgram("syscall"), HostCallProgram("exec")}) =>
        hostCommand(Machine) = [command |-> "ls", fields |-> <<"-la">>]

\* the same with every string read through the string pool as it stands
\* (section 9): the command is the constant of the first argument
C28_CommandIsFirstArgumentConstant ==
    (AtHostCommand /\ program \in {HostCallProgram("syscall"), HostCallProgram("exec")}) =>
        hostCommand(Machine).command = getStringConstant(instructions[1].Operand)


\* C29: while the code generated for a program that Analyse accepted is
\* executed, no instruction pops an empty operand stack: the values it
\* consumes are on the stack when it runs; in particular the value consumed
\* by ADD_AGENT_EVENT_HANDLER or ADD_AGENT_FUNCTION.
C29_NoPopOfEmptyStack ==
    (stage = "running" /\ semErr = Nil) => ~Underflows

\* the particular case: an agent's handler or function index is on the stack
\* when ADD_AGENT_EVENT_HANDLER or ADD_AGENT_FUNCTION runs
C29_HandlerIndexIsOnStack ==
    (stage = "running" /\ Executing
        /\ CurrentOpcode \in {"ADD_AGENT_EVENT_HANDLER", "ADD_AGENT_FUNCTION"}) =>
        Len(stack) >= 1


\* C30: in the REPL a line rejected by semantic analysis leaves the shared
\* symbol table as it was before the line (with log and syscall, which
\* every Analyse call declares): no name the line declared stays declared
\* and the current scope is still the global scope.
C30_RejectedLineLeavesTable ==
    [][ (stage = "parsed" /\ stage' = "prompt") =>
            /\ scopes' = initSystemFunctions(scopes)
            /\ Len(scopes') = 1
      ]_vars

\* every line is analysed in the global scope
C30_LinesAnalysedInGlobalScope ==
    stage \in {"prompt", "parsed"} => Len(scopes) = 1

=============================================================================
